---------------------------- MODULE Spec2Model ----------------------------
(***************************************************************************)
(* A model of the smartvns SDK's orchestration layer:                      *)
(*   - the serial (SMP) controller: multi-device fan-out operations and    *)
(*     the two-party pair / unpair protocols (smartvns_cli/usb_ctrl),      *)
(*   - the shell routines that classify a device's reply,                  *)
(*   - the dfu sequence and the exit status of the cli commands,           *)
(*   - the LoopRunner that bridges blocking calls onto a background        *)
(*     asyncio loop (smartvns/vnsconnect).                                 *)
(* Text is modelled as a sequence of one-character strings so that         *)
(* strip(), startswith("OK:"), the slice [4:] and int() are computed the   *)
(* way the Python source computes them.                                    *)
(***************************************************************************)
EXTENDS Integers, Sequences, FiniteSets, TLC

VARIABLES
    scen,       \* which component this behaviour exercises: "fan", "pair", "runner", "device", "shell", "dfu", "scan" or "stim"
    op,         \* the controller function being run
    n,          \* len(ports): the devices are 1..n, device i sits at ports[i]
    fpc,        \* position of the controller coroutine
    conn,       \* conn[i]: state of device i's SMPClient connection
    task,       \* task[i]: state of the routine task gathered for device i
    stage,      \* stage[i]: which request of its routine task i is awaiting
    ret,        \* ret[i]: value returned by device i's routine
    issued,     \* issued[i]: the requests sent to device i, in order
    lastReply,  \* lastReply[i]: the last reply device i gave
    replied,    \* replied[i]: the replies device i gave to the routine run on it, in order
    exc,        \* a gathered child has raised and gather has not yet re-raised it
    result,     \* what the controller function returned to its caller
    keys,       \* pair: the values gathered from routine_get_oob_key
    bond,       \* bond[i]: the peer key stored on device i
    bond0,      \* bond as it was before the call
    loop,       \* LoopRunner: state of the background event loop
    ops,        \* LoopRunner: the coroutines handed to the loop, in submission order
    callerPc,   \* LoopRunner: position of the calling thread
    waitOn,     \* LoopRunner: index in ops of the future the caller waits on
    timeoutArg, \* LoopRunner: the timeout of the current (or last) run()
    waited,     \* LoopRunner: ticks the caller has waited in the current (or last) run()
    outcome,    \* LoopRunner: how the last run() or terminate() ended
    workers,    \* LoopRunner: background threads started by the constructor
    readyEv,    \* LoopRunner: the _ready event is set
    startDelay, \* LoopRunner: ticks until the started thread enters run_forever
    dcall,      \* VNSDevice: the method the caller is in, or was in last
    dres,       \* VNSDevice: how that method ended ("none" while it is running)
    attempt,    \* VNSDevice.connect: run() calls made by the retry loop so far
    retriesArg, \* VNSDevice.connect: the retries argument
    dtimeout,   \* VNSDevice.connect: the timeout argument
    disconnected, \* VNSDevice: disconnect() has returned normally since the last connect()
    afterOk,    \* VNSDevice.connect: the last run() call was made after one that returned normally
    shCall,     \* shell routine: the routine being awaited, or awaited last
    shArg,      \* shell routine: the serialized config handed to routine_set_config
    shReply,    \* shell routine: the reply dev.request gave
    shRet,      \* shell routine: how the routine ended
    shSent,     \* shell routine: the base64 text the last cfg set request carried
    dn,         \* dfu: len(ports)
    dpc,        \* dfu: position of the dfu coroutine (the phase it is in, or how it ended)
    dreach,     \* dfu: dreach[i] is the last phase started for device i
    dchild,     \* dfu: dchild[i] is the state of the child gathered for device i in that phase
    dfault,     \* dfu: dfault[i] is the kind of failure device i has had, if any
    doff,       \* dfu: doff[i] counts the offsets device i's upload stream has yielded
    dsleeps,    \* dfu: settle delays slept so far
    dexc,       \* dfu: a gathered child has raised and gather has not yet re-raised it
    tqdmOk,     \* dfu: "import tqdm" succeeds in this environment
    exitStatus, \* CLI: the exit status of the command, "none" until it has exited
    scState,    \* Scanner: "new", "scanning" or "stopped"
    scFound,    \* Scanner: scanner.discovered_devices_and_advertisement_data
    scDevices,  \* Scanner: self.devices
    scStopped,  \* Scanner: stop() has returned at least once
    stDev,      \* Stimulator: the value of the stimulation-config characteristic on the device
    stPc,       \* Stimulator.trigger: "idle", "reading", "read", "writing", "done", "raised" or "timedout"
    stDur,      \* Stimulator.trigger: the duration_ms argument
    stCfg,      \* Stimulator.trigger: the local cfg
    stReadData, \* Stimulator.trigger: the bytes its read_gatt_char returned, <<>> before
    stWritten,  \* Stimulator.trigger: the bytes its write_gatt_char wrote, <<>> before
    stOther,    \* the bytes the last set_stim_config of another thread wrote, <<>> before
    stSets,     \* set_stim_config calls of the other thread that have taken effect
    stBetween   \* one of them took effect after trigger's read and before trigger's write

fanVars == <<op, n, fpc, conn, task, stage, ret, issued, lastReply, replied, exc, result>>
pairVars == <<keys, bond, bond0>>
startVars == <<workers, readyEv, startDelay>>
devVars == <<dcall, dres, attempt, retriesArg, dtimeout, disconnected, afterOk>>
runnerVars == <<loop, ops, callerPc, waitOn, timeoutArg, waited, outcome, startVars, devVars>>
shellVars == <<shCall, shArg, shReply, shRet, shSent>>
dfuVars == <<dn, dpc, dreach, dchild, dfault, doff, dsleeps, dexc, tqdmOk>>
cliVars == <<exitStatus>>
scanVars == <<scState, scFound, scDevices, scStopped>>
stimVars == <<stDev, stPc, stDur, stCfg, stReadData, stWritten, stOther, stSets, stBetween>>
bleVars == <<scanVars, stimVars>>
restVars == <<shellVars, dfuVars, cliVars, bleVars>>
vars == <<scen, fanVars, pairVars, runnerVars, restVars>>

-----------------------------------------------------------------------------
(* Bounds of the model *)

\* most ports handed to one fan-out call
MaxDevs == 2
\* most coroutines handed to one LoopRunner
MaxOps == 2
\* longest time, in ticks, a coroutine needs on the loop
MaxDur == 3
\* largest timeout, in ticks, passed to LoopRunner.run
MaxTimeout == 2
\* largest retries argument passed to VNSDevice.connect
MaxRetries == 2
\* most futures of one VNSDevice that are live on its loop together
MaxCalls == 1
\* longest text a device puts after the status prefix of a shell reply
MaxBody == 3
\* longest serialized config, in bytes
MaxPayload == 3
\* most ports handed to one dfu call
MaxDfuDevs == 3
\* offsets the upload of the image yields before it is complete
MaxChunks == 2
\* most BLE addresses a scan discovers
MaxAddrs == 2
\* longest stimulation pulse, in milliseconds
MaxMs == 2
\* most set_stim_config calls the other thread makes
MaxSets == 2

-----------------------------------------------------------------------------
(* Python values and text *)

None == <<"None">>
Unset == <<"unset">>
IntV(k) == <<"int", k>>
StrV(s) == <<"str", s>>
BoolV(b) == <<"bool", b>>
Raised(e) == <<"raise", e>>
\* what a controller function handed back: nothing yet (or an exception instead),
\* None, or a list
NoResult == [returned |-> FALSE, list |-> FALSE, value |-> <<>>]
ReturnedNone == [returned |-> TRUE, list |-> FALSE, value |-> <<>>]
ReturnedList(l) == [returned |-> TRUE, list |-> TRUE, value |-> l]

IsSpace(c) == c = " "

RECURSIVE LStrip(_)
LStrip(s) == IF s # <<>> /\ IsSpace(Head(s)) THEN LStrip(Tail(s)) ELSE s

RECURSIVE RStrip(_)
RStrip(s) ==
    IF s # <<>> /\ IsSpace(s[Len(s)]) THEN RStrip(SubSeq(s, 1, Len(s) - 1)) ELSE s

\* str.strip()
Strip(s) == RStrip(LStrip(s))

\* s[k:] with 0-based k
SliceFrom(s, k) == SubSeq(s, k + 1, Len(s))

OKPrefix == <<"O", "K", ":">>

\* a test that takes "OK" without the colon for the status prefix
shell_ok_lax(response) ==
    Len(response) >= 2 /\ SubSeq(response, 1, 2) = <<"O", "K">>

shell_ok(response) ==
    Len(response) >= Len(OKPrefix) /\ SubSeq(response, 1, Len(OKPrefix)) = OKPrefix

Digits == <<"0", "1", "2", "3", "4", "5", "6", "7", "8", "9">>
IsDigit(c) == \E d \in 1..Len(Digits) : Digits[d] = c
DigitVal(c) == (CHOOSE d \in 1..Len(Digits) : Digits[d] = c) - 1

RECURSIVE DigitsVal(_)
DigitsVal(s) ==
    IF s = <<>> THEN 0 ELSE 10 * DigitsVal(SubSeq(s, 1, Len(s) - 1)) + DigitVal(s[Len(s)])

\* the text int() accepts: optional surrounding blanks, an optional sign, digits
IntBody(s) ==
    LET t == Strip(s) IN IF t # <<>> /\ Head(t) \in {"+", "-"} THEN Tail(t) ELSE t
IsIntLiteral(s) == IntBody(s) # <<>> /\ \A k \in 1..Len(IntBody(s)) : IsDigit(IntBody(s)[k])
IntOf(s) ==
    LET t == Strip(s) IN IF Head(t) = "-" THEN 0 - DigitsVal(IntBody(s)) ELSE DigitsVal(IntBody(s))

\* int(s): the value, or ValueError
PyInt(s) == IF IsIntLiteral(s) THEN IntV(IntOf(s)) ELSE Raised("ValueError")


-----------------------------------------------------------------------------
(* Requests and replies.  A reply is an SMP error response, a success       *)
(* response carrying the shell output o, or the request raising (the        *)
(* transport failed or timed out).                                          *)

ErrResp == <<"err">>
TransportExc == <<"exc">>
OkResp(o) == <<"ok", o>>

error(response) == response[1] = "err"
success(response) == response[1] = "ok"
OutputOf(response) == response[2]

Execute(argv) == [req |-> "Execute", argv |-> argv]
Plain(name) == [req |-> name, argv |-> <<>>]

CmdBatt == Execute(<<"batt">>)
CmdVersion == Execute(<<"version">>)
CmdBondGet == Execute(<<"bond", "get">>)
CmdBondSet(key) == Execute(<<"bond", "set", "vns", key>>)
CmdBondDel == Execute(<<"bond", "del", "vns">>)
CmdResetWrite == Plain("ResetWrite")
CmdEraseStorage == Plain("EraseStorage")
CmdDateTimeRead == Plain("DateTimeRead")
CmdDateTimeWrite == Plain("DateTimeWrite")

IsBondSet(cmd) == cmd.req = "Execute" /\ Len(cmd.argv) = 4 /\ cmd.argv[2] = "set"
IsBondDel(cmd) == cmd = CmdBondDel

\* shell outputs a device may produce
TxtOK == <<"O", "K", ":">>
TxtERR == <<"E", "R", "R">>
TxtOK_42 == <<"O", "K", ":", " ", "4", "2">>
TxtOK42 == <<"O", "K", ":", "4", "2">>
TxtOK_x == <<"O", "K", ":", " ", "x">>
TxtOK_v1 == <<" ", "O", "K", ":", " ", "v", "1", " ">>
TxtOK_kA == <<"O", "K", ":", " ", "k", "A">>
TxtOK_kB == <<"O", "K", ":", " ", "k", "B", " ">>

Outputs(cmd) ==
    IF cmd.req # "Execute" THEN {<<>>}
    ELSE IF cmd = CmdBatt THEN {TxtOK_42, TxtOK42, TxtOK_x, TxtERR}
    ELSE IF cmd = CmdVersion THEN {TxtOK_v1, TxtERR}
    ELSE IF cmd = CmdBondGet THEN {TxtOK_kA, TxtOK_kB, TxtOK, TxtERR}
    ELSE {TxtOK, TxtERR}

\* every way a request can end
Replies(cmd) == {ErrResp, TransportExc} \cup {OkResp(o) : o \in Outputs(cmd)}

-----------------------------------------------------------------------------
(* The routines.  Each maps the reply of the request it awaits to what the  *)
(* routine does next: return a value, raise, or send its next request.      *)

Return(v) == [kind |-> "return", val |-> v, cmd |-> Plain("none")]
Raise(e) == [kind |-> "raise", val |-> Raised(e), cmd |-> Plain("none")]
Request(cmd) == [kind |-> "request", val |-> Unset, cmd |-> cmd]
\* the routine has not ended
Pending == [kind |-> "pending", val |-> Unset, cmd |-> Plain("none")]

routine_get_battery(response) ==
    IF response = TransportExc THEN Raise("TransportError")
    ELSE IF error(response) THEN Return(None)
    ELSE LET output == Strip(OutputOf(response)) IN
         IF shell_ok(output)
         THEN LET v == PyInt(SliceFrom(output, 4)) IN
              IF v[1] = "raise" THEN Raise(v[2]) ELSE Return(v)
         ELSE Return(None)

routine_get_version(response) ==
    IF response = TransportExc THEN Raise("TransportError")
    ELSE IF error(response) THEN Return(None)
    ELSE LET output == Strip(OutputOf(response)) IN
         IF shell_ok(output) THEN Return(StrV(SliceFrom(output, 4))) ELSE Return(None)

routine_get_oob_key(response) ==
    IF response = TransportExc THEN Raise("TransportError")
    ELSE IF success(response)
    THEN LET output == Strip(OutputOf(response)) IN
         IF shell_ok(output) THEN Return(StrV(Strip(SliceFrom(output, 4)))) ELSE Return(None)
    ELSE Return(None)

routine_set_oob_key(response) ==
    IF response = TransportExc THEN Raise("TransportError")
    ELSE IF error(response) THEN Return(BoolV(FALSE))
    ELSE IF ~shell_ok(Strip(OutputOf(response))) THEN Return(BoolV(FALSE))
    ELSE Return(BoolV(TRUE))

\* a delete routine that does not look for the OK: prefix
routine_del_oob_key_lax(response) ==
    IF response = TransportExc THEN Raise("TransportError")
    ELSE IF error(response) THEN Return(BoolV(FALSE))
    ELSE Return(BoolV(TRUE))

routine_del_oob_key(response) ==
    IF response = TransportExc THEN Raise("TransportError")
    ELSE IF error(response) THEN Return(BoolV(FALSE))
    ELSE IF ~shell_ok(Strip(OutputOf(response))) THEN Return(BoolV(FALSE))
    ELSE Return(BoolV(TRUE))

routine_reboot(response) ==
    IF response = TransportExc THEN Raise("TransportError")
    ELSE IF error(response) THEN Return(BoolV(FALSE))
    ELSE Return(BoolV(TRUE))

\* request 1 is EraseStorage, request 2 the ResetWrite of routine_reboot
routine_factory_reset(st, response) ==
    IF st = 2 THEN routine_reboot(response)
    ELSE IF response = TransportExc THEN Raise("TransportError")
    ELSE IF error(response) THEN Return(BoolV(FALSE))
    ELSE Request(CmdResetWrite)

\* a set_time that gives up with False when the DateTimeWrite is refused
routine_set_time_strict(st, response) ==
    IF response = TransportExc THEN Raise("TransportError")
    ELSE IF st = 1 THEN Request(CmdDateTimeWrite)
    ELSE IF st = 2 THEN (IF error(response) THEN Return(BoolV(FALSE))
                         ELSE Request(CmdDateTimeRead))
    ELSE Return(BoolV(success(response)))

\* request 1 is DateTimeRead, request 2 DateTimeWrite, request 3 DateTimeRead
routine_set_time(st, response) ==
    IF response = TransportExc THEN Raise("TransportError")
    ELSE IF st = 1 THEN Request(CmdDateTimeWrite)
    ELSE IF st = 2 THEN Request(CmdDateTimeRead)
    ELSE Return(BoolV(success(response)))

CmdDfu == Execute(<<"dfu">>)

routine_set_bootmode(response) ==
    IF response = TransportExc THEN Raise("TransportError")
    ELSE IF error(response) THEN Return(BoolV(FALSE))
    ELSE Return(BoolV(TRUE))

\* how routine_upload_image ends when the stream dev.upload(...) ends: the
\* stream is exhausted, or it raises.  With tqdm imported the stream is read
\* inside the try block, whose handler reads the stream again, to find it
\* finished; without tqdm the stream is read inside the handler.
routine_upload_image(hasTqdm, streamEnd) ==
    IF streamEnd = "exhausted" THEN Return(None)
    ELSE IF hasTqdm THEN Return(None)
    ELSE Raise("TransportError")

-----------------------------------------------------------------------------
(* base64, computed on bytes (0..255) and text the way the standard library *)
(* does, and the two configuration routines that use it.                    *)

B64Alphabet ==
    <<"A", "B", "C", "D", "E", "F", "G", "H", "I", "J", "K", "L", "M",
      "N", "O", "P", "Q", "R", "S", "T", "U", "V", "W", "X", "Y", "Z",
      "a", "b", "c", "d", "e", "f", "g", "h", "i", "j", "k", "l", "m",
      "n", "o", "p", "q", "r", "s", "t", "u", "v", "w", "x", "y", "z",
      "0", "1", "2", "3", "4", "5", "6", "7", "8", "9", "+", "/">>
B64Pad == "="
B64Char(v) == B64Alphabet[v + 1]
IsB64Char(c) == \E k \in 1..Len(B64Alphabet) : B64Alphabet[k] = c
B64Val(c) == (CHOOSE k \in 1..Len(B64Alphabet) : B64Alphabet[k] = c) - 1

BytesV(b) == <<"bytes", b>>
\* the protobuf message a serialized config parses to, known by its bytes
CfgV(b) == <<"cfg", b>>

\* base64.b64encode(b).decode('ascii'): three bytes become four characters,
\* a last group of one or two bytes is padded with "="
RECURSIVE b64encode(_)
b64encode(b) ==
    IF b = <<>> THEN <<>>
    ELSE IF Len(b) = 1
    THEN <<B64Char(b[1] \div 4), B64Char((b[1] % 4) * 16), B64Pad, B64Pad>>
    ELSE IF Len(b) = 2
    THEN <<B64Char(b[1] \div 4), B64Char((b[1] % 4) * 16 + b[2] \div 16),
           B64Char((b[2] % 16) * 4), B64Pad>>
    ELSE <<B64Char(b[1] \div 4), B64Char((b[1] % 4) * 16 + b[2] \div 16),
           B64Char((b[2] % 16) * 4 + b[3] \div 64), B64Char(b[3] % 64)>>
         \o b64encode(SubSeq(b, 4, Len(b)))

\* binascii.a2b_base64 reading character i of s: quad is the position in the
\* current group of four, left the bits carried over, pads the "=" seen at
\* the end of the group, out the bytes produced so far
RECURSIVE a2b_base64(_, _, _, _, _, _)
a2b_base64(s, i, quad, left, pads, out) ==
    IF i > Len(s)
    THEN IF quad # 0 THEN Raised("binascii.Error") ELSE BytesV(out)
    ELSE IF s[i] = B64Pad
    THEN IF quad >= 2 /\ quad + pads + 1 >= 4
         THEN BytesV(out)
         ELSE a2b_base64(s, i + 1, quad, left, IF quad >= 2 THEN pads + 1 ELSE pads, out)
    ELSE IF ~IsB64Char(s[i])
    THEN a2b_base64(s, i + 1, quad, left, pads, out)
    ELSE LET v == B64Val(s[i]) IN
         CASE quad = 0 -> a2b_base64(s, i + 1, 1, v, 0, out)
           [] quad = 1 -> a2b_base64(s, i + 1, 2, v % 16, 0, Append(out, left * 4 + v \div 16))
           [] quad = 2 -> a2b_base64(s, i + 1, 3, v % 4, 0, Append(out, left * 16 + v \div 4))
           [] quad = 3 -> a2b_base64(s, i + 1, 0, 0, 0, Append(out, left * 64 + v))

\* base64.b64decode(s): the bytes, or binascii.Error
b64decode(s) == a2b_base64(s, 1, 0, 0, 0, <<>>)

CmdCfgGet == Execute(<<"cfg", "get", "sys">>)
CmdCfgSet(b64) == Execute(<<"cfg", "set", "sys", b64>>)
IsCfgSet(cmd) == cmd.req = "Execute" /\ Len(cmd.argv) = 4 /\ cmd.argv[1] = "cfg"

\* the request routine_set_config sends for a config that serializes to value
request_set_config(value) == CmdCfgSet(b64encode(value))

routine_get_config(response) ==
    IF response = TransportExc THEN Raise("TransportError")
    ELSE IF error(response) THEN Return(None)
    ELSE LET output == Strip(OutputOf(response)) IN
         IF ~shell_ok(output) THEN Return(None)
         ELSE LET data == b64decode(SliceFrom(Strip(OutputOf(response)), 4)) IN
              IF data[1] = "raise" THEN Raise(data[2]) ELSE Return(CfgV(data[2]))

routine_set_config(response) ==
    IF response = TransportExc THEN Raise("TransportError")
    ELSE IF success(response)
    THEN IF shell_ok(Strip(OutputOf(response))) THEN Return(BoolV(TRUE)) ELSE Return(BoolV(FALSE))
    ELSE Return(BoolV(FALSE))

-----------------------------------------------------------------------------
(* The multi-device controller functions (fan-out).                         *)

\* for dev in devs: await dev.connect()
SeqConnectOps == {"set_time", "reboot", "factory_reset"}
\* await asyncio.gather(*[dev.connect() for dev in devs])
GatherConnectOps == {"get_battery", "get_version"}
FanOps == SeqConnectOps \cup GatherConnectOps
\* the functions that return the gathered list
ListOps == {"get_battery", "get_version"}

Devs == 1..n
Finished == {"returned", "raised"}

FirstRequest(o) ==
    CASE o = "set_time" -> CmdDateTimeRead
      [] o = "reboot" -> CmdResetWrite
      [] o = "factory_reset" -> CmdEraseStorage
      [] o = "get_battery" -> CmdBatt
      [] o = "get_version" -> CmdVersion

RoutineStep(o, st, response) ==
    CASE o = "set_time" -> routine_set_time(st, response)
      [] o = "reboot" -> routine_reboot(response)
      [] o = "factory_reset" -> routine_factory_reset(st, response)
      [] o = "get_battery" -> routine_get_battery(response)
      [] o = "get_version" -> routine_get_version(response)

\* tasks and connects still in flight when the coroutine passed to asyncio.run
\* ends with an exception are cancelled by the loop's shutdown
CancelPending(f, inflight) == [i \in DOMAIN f |-> IF f[i] = inflight THEN "cancelled" ELSE f[i]]

\* the variables of a component a behaviour does not exercise
NoPair == keys = <<>> /\ bond = <<>> /\ bond0 = <<>>
NoShell ==
    /\ shCall = "none" /\ shArg = <<>> /\ shReply = Unset /\ shRet = Pending /\ shSent = <<>>
NoDfu ==
    /\ dn = 0 /\ dpc = "none" /\ dreach = <<>> /\ dchild = <<>> /\ dfault = <<>>
    /\ doff = <<>> /\ dsleeps = 0 /\ dexc = FALSE /\ tqdmOk = FALSE
NoCli == exitStatus = "none"
NoScan == scState = "none" /\ scFound = {} /\ scDevices = {} /\ scStopped = FALSE
NoStim ==
    /\ stDev = <<>> /\ stPc = "none" /\ stDur = 0 /\ stCfg = None /\ stReadData = <<>>
    /\ stWritten = <<>> /\ stOther = <<>> /\ stSets = 0 /\ stBetween = FALSE
NoBle == NoScan /\ NoStim
NoRest == NoShell /\ NoDfu /\ NoCli /\ NoBle
NoStart == workers = 0 /\ readyEv = FALSE /\ startDelay = 0
NoDev ==
    /\ dcall = "none" /\ dres = "none" /\ attempt = 0 /\ retriesArg = 0
    /\ dtimeout = 0 /\ disconnected = FALSE /\ afterOk = FALSE
NoRunner ==
    /\ loop = "none" /\ ops = <<>> /\ callerPc = "none" /\ waitOn = 0
    /\ timeoutArg = 0 /\ waited = 0 /\ outcome = "none"
    /\ NoStart /\ NoDev
NoFan ==
    /\ op = "none" /\ n = 0 /\ fpc = "none" /\ conn = <<>> /\ task = <<>> /\ stage = <<>>
    /\ ret = <<>> /\ issued = <<>> /\ lastReply = <<>> /\ exc = FALSE /\ result = NoResult
    /\ replied = <<>>

FanInit ==
    /\ scen = "fan"
    /\ NoRest
    /\ NoPair /\ NoRunner
    /\ op \in FanOps
    /\ n \in 1..MaxDevs
    /\ fpc = "start"
    /\ conn = [i \in 1..n |-> "idle"]
    /\ task = [i \in 1..n |-> "none"]
    /\ stage = [i \in 1..n |-> 0]
    /\ ret = [i \in 1..n |-> Unset]
    /\ issued = [i \in 1..n |-> <<>>]
    /\ lastReply = [i \in 1..n |-> Unset]
    /\ replied = [i \in 1..n |-> <<>>]
    /\ exc = FALSE
    /\ result = NoResult

\* gather(*[dev.connect() ...]): every connect is started before any completes
ConnectAll ==
    /\ scen = "fan" /\ fpc = "start" /\ op \in GatherConnectOps
    /\ conn' = [i \in Devs |-> "pending"]
    /\ fpc' = "connecting"
    /\ UNCHANGED <<op, n, task, stage, ret, issued, lastReply, replied, exc, result>>
    /\ UNCHANGED <<scen, restVars, pairVars, runnerVars>>

\* the for loop: connect of device i starts once every earlier connect has returned
ConnectBegin(i) ==
    /\ scen = "fan" /\ fpc \in {"start", "connecting"} /\ op \in SeqConnectOps
    /\ conn[i] = "idle"
    /\ \A j \in Devs : j < i => conn[j] = "connected"
    /\ conn' = [conn EXCEPT ![i] = "pending"]
    /\ fpc' = "connecting"
    /\ UNCHANGED <<op, n, task, stage, ret, issued, lastReply, replied, exc, result>>
    /\ UNCHANGED <<scen, restVars, pairVars, runnerVars>>

\* a connect succeeds
ConnectOk(i) ==
    /\ scen = "fan" /\ fpc = "connecting" /\ conn[i] = "pending"
    /\ conn' = [conn EXCEPT ![i] = "connected"]
    /\ UNCHANGED <<op, n, fpc, task, stage, ret, issued, lastReply, replied, exc, result>>
    /\ UNCHANGED <<scen, restVars, pairVars, runnerVars>>

\* a connect raises: in the for loop the exception leaves the function at once,
\* in a gather it is handed to the gather, which re-raises it (GatherRaise)
ConnectFail(i) ==
    /\ scen = "fan" /\ fpc = "connecting" /\ conn[i] = "pending"
    /\ IF op \in SeqConnectOps
       THEN /\ fpc' = "raised"
            /\ conn' = [conn EXCEPT ![i] = "failed"]
            /\ exc' = exc
       ELSE /\ fpc' = fpc
            /\ conn' = [conn EXCEPT ![i] = "failed"]
            /\ exc' = TRUE
    /\ UNCHANGED <<op, n, task, stage, ret, issued, lastReply, replied, result>>
    /\ UNCHANGED <<scen, restVars, pairVars, runnerVars>>

\* gather(*(routine(dev) for dev in devs)): once every connect has returned, each
\* routine task runs to its first await, which sends its first request
StartOps ==
    /\ scen = "fan" /\ fpc = "connecting" /\ ~exc
    /\ \A i \in Devs : conn[i] = "connected"
    /\ fpc' = "operating"
    /\ task' = [i \in Devs |-> "awaiting"]
    /\ stage' = [i \in Devs |-> 1]
    /\ issued' = [i \in Devs |-> Append(issued[i], FirstRequest(op))]
    /\ UNCHANGED <<op, n, conn, ret, lastReply, replied, exc, result>>
    /\ UNCHANGED <<scen, restVars, pairVars, runnerVars>>

\* the request task i awaits ends with some reply and the routine goes on
ReqComplete(i) ==
    /\ scen = "fan" /\ fpc = "operating" /\ task[i] = "awaiting"
    /\ \E r \in Replies(issued[i][Len(issued[i])]) :
         LET step == RoutineStep(op, stage[i], r) IN
         /\ lastReply' = [lastReply EXCEPT ![i] = r]
         /\ replied' = [replied EXCEPT ![i] = Append(@, r)]
         /\ CASE step.kind = "request" ->
                   /\ issued' = [issued EXCEPT ![i] = Append(@, step.cmd)]
                   /\ stage' = [stage EXCEPT ![i] = @ + 1]
                   /\ UNCHANGED <<task, ret, exc>>
              [] step.kind = "return" ->
                   /\ task' = [task EXCEPT ![i] = "done"]
                   /\ ret' = [ret EXCEPT ![i] = step.val]
                   /\ UNCHANGED <<issued, stage, exc>>
              [] step.kind = "raise" ->
                   /\ task' = [task EXCEPT ![i] = "raised"]
                   /\ ret' = [ret EXCEPT ![i] = step.val]
                   /\ exc' = TRUE
                   /\ UNCHANGED <<issued, stage>>
    /\ UNCHANGED <<op, n, fpc, conn, result>>
    /\ UNCHANGED <<scen, restVars, pairVars, runnerVars>>

\* gather (no return_exceptions) re-raises the first exception of a child; the
\* controller function has no handler, so it ends with that exception
GatherRaise ==
    /\ scen = "fan" /\ fpc \in {"connecting", "operating"} /\ exc
    /\ fpc' = "raised"
    /\ exc' = FALSE
    /\ conn' = CancelPending(conn, "pending")
    /\ task' = CancelPending(task, "awaiting")
    /\ UNCHANGED <<op, n, stage, ret, issued, lastReply, replied, result>>
    /\ UNCHANGED <<scen, restVars, pairVars, runnerVars>>

\* every routine has returned: gather yields their values in the order of devs
GatherResult == [i \in Devs |-> ret[i]]

FanReturn ==
    /\ scen = "fan" /\ fpc = "operating" /\ ~exc
    /\ \A i \in Devs : task[i] = "done"
    /\ fpc' = "returned"
    /\ result' = IF op \in ListOps THEN ReturnedList(GatherResult) ELSE ReturnedNone
    /\ UNCHANGED <<op, n, conn, task, stage, ret, issued, lastReply, replied, exc>>
    /\ UNCHANGED <<scen, restVars, pairVars, runnerVars>>

\* the exit status of a cli command whose controller function ended: an
\* exception leaves asyncio.run and the command, "get config" raises
\* typer.Exit(code=1) when it got None, every other command just ends
cli_exit(command, raised, value) ==
    IF raised THEN "1"
    ELSE IF command = "get_config" /\ value = None THEN "1"
    ELSE "0"

\* the cli command that called the controller function exits
CliExit ==
    /\ scen \in {"fan", "pair"} /\ fpc \in Finished /\ exitStatus = "none"
    /\ exitStatus' = cli_exit(op, fpc = "raised", result)
    /\ UNCHANGED <<scen, fanVars, pairVars, runnerVars, bleVars, shellVars, dfuVars>>

FanNext ==
    \/ CliExit
    \/ ConnectAll
    \/ \E i \in Devs : ConnectBegin(i)
    \/ \E i \in Devs : ConnectOk(i)
    \/ \E i \in Devs : ConnectFail(i)
    \/ StartOps
    \/ \E i \in Devs : ReqComplete(i)
    \/ GatherRaise
    \/ FanReturn

-----------------------------------------------------------------------------
(* pair and unpair: two sessions opened by one async with, then gathers.    *)

PairOps == {"pair", "unpair"}
Other(i) == 3 - i

\* the peer key a device holds: none, or the one it held before the call
NoBond == <<"no bond">>
OldBond == StrV(<<"k", "0">>)

\* a validation that aborts only when both keys are missing
KeysMissing_both(k) == k[1] = None /\ k[2] = None

\* a validation that takes every falsy key, the empty string included, for missing
KeysMissing_falsy(k) == \E i \in 1..2 : k[i] = None \/ k[i] = StrV(<<>>)

\* if keys[0] is None or keys[1] is None
KeysMissing(k) == k[1] = None \/ k[2] = None

\* an exchange that writes each device its own key back
KeyFor_own(i, k) == k[i]

\* routine_set_oob_key(dev1, keys[1]), routine_set_oob_key(dev2, keys[0])
KeyFor(i, k) == k[Other(i)]

\* the request each gathered routine sends first
PairRequest(o, i, k) ==
    CASE o = "fetch" -> CmdBondGet
      [] o = "exchange" -> CmdBondSet(KeyFor(i, k))
      [] o = "delete" -> CmdBondDel

PairRoutine(cmd, response) ==
    IF cmd = CmdBondGet THEN routine_get_oob_key(response)
    ELSE IF IsBondSet(cmd) THEN routine_set_oob_key(response)
    ELSE routine_del_oob_key(response)

\* the device's side of a request: it stores or deletes the peer key exactly when
\* it answers with an OK: output; a request that raised may or may not have been
\* carried out (did)
DeviceBond(cmd, response, old, did) ==
    LET carried == IF response = TransportExc THEN did
                   ELSE success(response) /\ shell_ok(Strip(OutputOf(response)))
    IN IF ~carried THEN old
       ELSE IF IsBondSet(cmd) THEN cmd.argv[4]
       ELSE IF IsBondDel(cmd) THEN NoBond
       ELSE old

LastCmd(i) == issued[i][Len(issued[i])]

\* an exit that closes the sessions only when both were entered
CloseAll_bothOpen(c) ==
    IF \A i \in DOMAIN c : c[i] = "connected" THEN [i \in DOMAIN c |-> "closed"] ELSE c

\* __aexit__ of every session that was entered
CloseAll(c) == [i \in DOMAIN c |-> IF c[i] = "connected" THEN "closed" ELSE c[i]]

PairInit ==
    /\ scen = "pair"
    /\ NoRest
    /\ NoRunner
    /\ op \in PairOps
    /\ n = 2
    /\ fpc = "start"
    /\ conn = [i \in 1..2 |-> "idle"]
    /\ task = [i \in 1..2 |-> "none"]
    /\ stage = [i \in 1..2 |-> 0]
    /\ ret = [i \in 1..2 |-> Unset]
    /\ issued = [i \in 1..2 |-> <<>>]
    /\ lastReply = [i \in 1..2 |-> Unset]
    /\ replied = [i \in 1..2 |-> <<>>]
    /\ exc = FALSE
    /\ result = NoResult
    /\ keys = [i \in 1..2 |-> Unset]
    /\ bond0 \in [1..2 -> {NoBond, OldBond}]
    /\ bond = bond0

\* async with SMPClient(p1) as dev1, SMPClient(p2) as dev2: the sessions are
\* entered in order; when one fails to open, those already open are closed and
\* the exception leaves the function
PairConnect(i) ==
    /\ scen = "pair" /\ fpc \in {"start", "connecting"}
    /\ conn[i] = "idle"
    /\ \A j \in Devs : j < i => conn[j] = "connected"
    /\ \E ok \in BOOLEAN :
         IF ok
         THEN /\ conn' = [conn EXCEPT ![i] = "connected"]
              /\ fpc' = "connecting"
         ELSE /\ conn' = CloseAll([conn EXCEPT ![i] = "failed"])
              /\ fpc' = "raised"
    /\ UNCHANGED <<op, n, task, stage, ret, issued, lastReply, replied, exc, result>>
    /\ UNCHANGED <<scen, restVars, pairVars, runnerVars>>

\* the first gather: pair fetches both keys, unpair deletes on both devices
PairStart ==
    /\ scen = "pair" /\ fpc = "connecting"
    /\ \A i \in Devs : conn[i] = "connected"
    /\ LET ph == IF op = "pair" THEN "fetch" ELSE "delete" IN
       /\ fpc' = IF op = "pair" THEN "fetching" ELSE "deleting"
       /\ issued' = [i \in Devs |-> Append(issued[i], PairRequest(ph, i, keys))]
    /\ task' = [i \in Devs |-> "awaiting"]
    /\ stage' = [i \in Devs |-> 1]
    /\ UNCHANGED <<op, n, conn, ret, lastReply, replied, exc, result>>
    /\ UNCHANGED <<scen, restVars, pairVars, runnerVars>>

\* a request of a gathered routine ends: the device has acted on it (or not) and
\* the routine returns or raises
PairReply(i) ==
    /\ scen = "pair" /\ fpc \in {"fetching", "exchanging", "deleting"}
    /\ task[i] = "awaiting"
    /\ \E r \in Replies(LastCmd(i)), did \in BOOLEAN :
         LET step == PairRoutine(LastCmd(i), r) IN
         /\ r # TransportExc => did
         /\ lastReply' = [lastReply EXCEPT ![i] = r]
         /\ replied' = [replied EXCEPT ![i] = Append(@, r)]
         /\ bond' = [bond EXCEPT ![i] = DeviceBond(LastCmd(i), r, @, did)]
         /\ ret' = [ret EXCEPT ![i] = step.val]
         /\ task' = [task EXCEPT ![i] = IF step.kind = "raise" THEN "raised" ELSE "done"]
         /\ exc' = (exc \/ step.kind = "raise")
         /\ keys' = IF fpc = "fetching" THEN [keys EXCEPT ![i] = step.val] ELSE keys
    /\ UNCHANGED <<scen, restVars, op, n, fpc, conn, stage, issued, result, bond0, runnerVars>>

\* both fetches returned: abort when a key is missing, else the second gather
\* writes each device's key to the other
PairValidate ==
    /\ scen = "pair" /\ fpc = "fetching" /\ ~exc
    /\ \A i \in Devs : task[i] = "done"
    /\ IF KeysMissing(keys)
       THEN /\ fpc' = "returned"
            /\ result' = ReturnedNone
            /\ conn' = CloseAll(conn)
            /\ UNCHANGED <<task, stage, issued>>
       ELSE /\ fpc' = "exchanging"
            /\ issued' = [i \in Devs |-> Append(issued[i], PairRequest("exchange", i, keys))]
            /\ task' = [i \in Devs |-> "awaiting"]
            /\ stage' = [i \in Devs |-> 2]
            /\ UNCHANGED <<result, conn>>
    /\ UNCHANGED <<op, n, ret, lastReply, replied, exc>>
    /\ UNCHANGED <<scen, restVars, pairVars, runnerVars>>

\* the last gather returned: the sessions are closed and the function returns
PairFinish ==
    /\ scen = "pair" /\ fpc \in {"exchanging", "deleting"} /\ ~exc
    /\ \A i \in Devs : task[i] = "done"
    /\ fpc' = "returned"
    /\ result' = ReturnedNone
    /\ conn' = CloseAll(conn)
    /\ UNCHANGED <<op, n, task, stage, ret, issued, lastReply, replied, exc>>
    /\ UNCHANGED <<scen, restVars, pairVars, runnerVars>>

\* a gathered routine raised: the sessions are closed and the exception leaves the
\* function; a request still awaited is cancelled, and its device may or may not
\* have carried it out
PairRaise ==
    /\ scen = "pair" /\ fpc \in {"fetching", "exchanging", "deleting"} /\ exc
    /\ fpc' = "raised"
    /\ exc' = FALSE
    /\ conn' = CloseAll(conn)
    /\ task' = CancelPending(task, "awaiting")
    /\ \E did \in [Devs -> BOOLEAN] :
         /\ \A i \in Devs : task[i] # "awaiting" => did[i]
         /\ bond' = [i \in Devs |->
                       IF task[i] = "awaiting"
                       THEN DeviceBond(LastCmd(i), TransportExc, bond[i], did[i])
                       ELSE bond[i]]
    /\ UNCHANGED <<scen, restVars, op, n, stage, ret, issued, lastReply, replied, result, keys, bond0, runnerVars>>

PairNext ==
    \/ CliExit
    \/ \E i \in Devs : PairConnect(i)
    \/ PairStart
    \/ \E i \in Devs : PairReply(i)
    \/ PairValidate
    \/ PairFinish
    \/ PairRaise

SpecPair == PairInit /\ [][PairNext]_vars

SpecFan == FanInit /\ [][FanNext]_vars

-----------------------------------------------------------------------------
(* LoopRunner: a private asyncio loop in a background thread, and run(),    *)
(* which hands it a coroutine and waits for the future with a timeout.      *)
(* Time is counted in ticks; a coroutine on the loop needs dur ticks.       *)

InFlight(o) == o.state \in {"scheduled", "running"}

\* a wait that ignores the timeout
WaitBound_none(timeout) == timeout + MaxDur + 1

\* future.result(timeout): the longest the caller waits
WaitBound(timeout) == timeout

\* a check that lets every call through
LoopIsRunning_always(l) == TRUE

\* self._loop.is_running()
LoopIsRunning(l) == l = "running"

\* a loop that starts the coroutine handed over last
IsNext_last(q, k) ==
    /\ q[k].state = "scheduled"
    /\ \A j \in (k + 1)..Len(q) : q[j].state # "scheduled"

\* call_soon_threadsafe keeps the callbacks in the order they were handed
\* over: the coroutine to start is the one that has been scheduled longest
IsNext(q, k) ==
    /\ q[k].state = "scheduled"
    /\ \A j \in 1..(k - 1) : q[j].state # "scheduled"

\* the coroutines the loop has started so far
Started(q) == {j \in 1..Len(q) : q[j].order > 0}

\* a run() that cancels the future it gave up on
FutureOnTimeout_cancel(o) == [o EXCEPT !.state = "cancelled"]

\* the except branch of run() raises TimeoutError and does nothing else: the
\* future, and the coroutine behind it, stay as they are
FutureOnTimeout(o) == o

\* the scenarios that run a LoopRunner: the runner alone, and a VNSDevice,
\* which is a LoopRunner
RunnerScens == {"runner", "device"}

\* a runner whose constructor has returned: one thread, its loop running
Constructed == workers = 1 /\ readyEv = TRUE /\ startDelay = 0

RunnerInit ==
    /\ scen = "runner"
    /\ NoRest
    /\ NoFan /\ NoPair /\ NoDev
    /\ Constructed
    /\ loop = "running"
    /\ ops = <<>>
    /\ callerPc = "idle"
    /\ waitOn = 0
    /\ timeoutArg = 0
    /\ waited = 0
    /\ outcome = "none"

\* q without its k-th entry
Remove(q, k) == [i \in 1..(Len(q) - 1) |-> IF i < k THEN q[i] ELSE q[i + 1]]

\* the futures kept once future k is done and no caller waits on it: nothing
\* refers to it any more. The runner scenario keeps it as a record of what
\* ran; the device scenario drops it, and MaxCalls bounds the live futures
AfterDone(q, k) == IF scen = "device" THEN Remove(q, k) ELSE q

\* waitOn after future k was dropped
WaitOnAfterDone(k) ==
    IF scen # "device" THEN waitOn
    ELSE IF waitOn > k THEN waitOn - 1
    ELSE IF waitOn = k THEN 0
    ELSE waitOn

\* a fact about a future that only the claims about the bare runner read: the
\* runner scenario records it, the device scenario does not
Record(x) == IF scen = "device" THEN 0 ELSE x

\* the future of a coroutine just handed to the loop
NewOp(dur) ==
    [state |-> "scheduled", dur |-> Record(dur), left |-> dur,
     order |-> 0, res |-> "none"]

\* the body of run(coro, timeout): RuntimeError when the loop is not running,
\* else the coroutine is handed to the loop and the caller starts waiting on
\* its future
RunCall(dur, timeout) ==
    IF ~LoopIsRunning(loop)
    THEN /\ outcome' = "RuntimeError"
         /\ UNCHANGED <<ops, callerPc, waitOn, timeoutArg, waited>>
    ELSE /\ ops' = Append(ops, NewOp(dur))
         /\ callerPc' = "waiting"
         /\ waitOn' = Len(ops) + 1
         /\ timeoutArg' = timeout
         /\ waited' = 0
         /\ outcome' = "none"

\* run(coro, timeout) called on the runner directly
Run(dur, timeout) ==
    /\ scen = "runner" /\ callerPc = "idle"
    /\ LoopIsRunning(loop) => Len(ops) < MaxOps
    /\ RunCall(dur, timeout)
    /\ UNCHANGED <<scen, restVars, loop, fanVars, pairVars, startVars, devVars>>

\* the loop picks up the coroutine scheduled first and starts running it: the
\* coroutine makes its call on the BleakClient
OpStart(k) ==
    /\ scen \in RunnerScens /\ loop = "running"
    /\ k \in 1..Len(ops) /\ IsNext(ops, k)
    /\ ops' = [ops EXCEPT ![k].state = "running",
                          ![k].order = Record(Cardinality(Started(ops)) + 1)]
    /\ UNCHANGED <<scen, restVars, loop, callerPc, waitOn, timeoutArg, waited, outcome,
                   fanVars, pairVars, startVars, devVars>>

\* a coroutine that has had its time on the loop completes and sets its
\* future, with its return value or with the exception it raised; the future
\* holds that result for the caller waiting on it, and for nobody otherwise
OpComplete(k, r) ==
    /\ scen \in RunnerScens /\ loop = "running"
    /\ k \in 1..Len(ops) /\ ops[k].state = "running" /\ ops[k].left = 0
    /\ IF callerPc = "waiting" /\ waitOn = k
       THEN /\ ops' = [ops EXCEPT ![k].state = "done", ![k].res = r]
            /\ waitOn' = waitOn
       ELSE /\ ops' = AfterDone([ops EXCEPT ![k].state = "done"], k)
            /\ waitOn' = WaitOnAfterDone(k)
    /\ UNCHANGED <<scen, restVars, loop, callerPc, timeoutArg, waited, outcome,
                   fanVars, pairVars, startVars, devVars>>

\* one tick passes: every coroutine running on the loop advances, and a waiting
\* caller has waited one tick more; time does not pass the deadline of the wait
Tick ==
    /\ scen \in RunnerScens
    /\ callerPc = "waiting" => waited < WaitBound(timeoutArg)
    /\ callerPc = "waiting" \/ \E k \in 1..Len(ops) : ops[k].state = "running" /\ ops[k].left > 0
    /\ ops' = [k \in 1..Len(ops) |->
                 IF loop = "running" /\ ops[k].state = "running" /\ ops[k].left > 0
                 THEN [ops[k] EXCEPT !.left = @ - 1] ELSE ops[k]]
    /\ waited' = IF callerPc = "waiting" THEN waited + 1 ELSE waited
    /\ UNCHANGED <<scen, restVars, loop, callerPc, waitOn, timeoutArg, outcome, fanVars, pairVars,
                   startVars, devVars>>

\* future.result returns the coroutine's value, or raises what it raised: the
\* coroutine completed within the wait, and its result is now the caller's
CallerReturn ==
    /\ scen \in RunnerScens /\ callerPc = "waiting"
    /\ ops[waitOn].state = "done"
    /\ callerPc' = "idle"
    /\ outcome' = IF ops[waitOn].res = "ok" THEN "result" ELSE "raised"
    /\ ops' = AfterDone([ops EXCEPT ![waitOn].res = "none"], waitOn)
    /\ waitOn' = WaitOnAfterDone(waitOn)
    /\ UNCHANGED <<scen, restVars, loop, timeoutArg, waited, fanVars, pairVars,
                   startVars, devVars>>

\* except concurrent.futures.TimeoutError: raise TimeoutError(); the future is
\* left as it is
CallerTimeout ==
    /\ scen \in RunnerScens /\ callerPc = "waiting"
    /\ ops[waitOn].state # "done"
    /\ waited >= WaitBound(timeoutArg)
    /\ callerPc' = "idle"
    /\ outcome' = "TimeoutError"
    /\ ops' = [ops EXCEPT ![waitOn] = FutureOnTimeout(@)]
    /\ UNCHANGED <<scen, restVars, loop, waitOn, timeoutArg, waited, fanVars, pairVars,
                   startVars, devVars>>

\* the caller is inside a method of VNSDevice
InCall == dcall # "none" /\ dres = "none"

\* what loop.stop() followed by loop.close() does to a future handed to the
\* loop: a stopping loop that cancelled what it still holds
FutureOnStop_cancel(f) ==
    IF f.state \in {"scheduled", "running"} THEN [f EXCEPT !.state = "cancelled"] ELSE f
\* ... and the loop of the code: run_forever returns and close() drops the
\* callbacks, the future is never set
FutureOnStop(f) == f

\* terminate(): the loop is asked to stop, the thread closes it and is joined;
\* on a loop already closed call_soon_threadsafe raises RuntimeError
Terminate ==
    /\ scen \in RunnerScens /\ callerPc = "idle" /\ ~InCall
    /\ IF loop = "running"
       THEN /\ loop' = "closed" /\ outcome' = "terminated"
            /\ ops' = [k \in 1..Len(ops) |-> FutureOnStop(ops[k])]
       ELSE /\ loop' = loop /\ outcome' = "terminate:RuntimeError"
            /\ ops' = ops
    /\ UNCHANGED <<scen, restVars, callerPc, waitOn, timeoutArg, waited, fanVars, pairVars,
                   startVars, devVars>>

\* terminate() called from a second thread while the caller is blocked in
\* run(): the loop stops under the waiting caller
TerminateUnderCaller ==
    /\ scen = "runner" /\ callerPc = "waiting"
    /\ loop = "running"
    /\ loop' = "closed"
    /\ ops' = [k \in 1..Len(ops) |-> FutureOnStop(ops[k])]
    /\ UNCHANGED <<scen, restVars, callerPc, waitOn, timeoutArg, waited, outcome,
                   fanVars, pairVars, startVars, devVars>>

\* what the loop and the waiting caller do, whoever called run()
LoopNext ==
    \/ \E k \in 1..Len(ops) : OpStart(k)
    \/ \E k \in 1..Len(ops), r \in {"ok", "exc"} : OpComplete(k, r)
    \/ Tick
    \/ CallerReturn
    \/ CallerTimeout
    \/ Terminate

RunnerNext ==
    \/ \E dur \in 0..MaxDur, timeout \in 0..MaxTimeout : Run(dur, timeout)
    \/ TerminateUnderCaller
    \/ LoopNext

SpecRunner == RunnerInit /\ [][RunnerNext]_vars

(* LoopRunner.__init__: the thread is started and the constructor waits for   *)
(* the _ready event, which the loop sets as its first callback.              *)

\* a constructor that does not wait for the event
ReadyWait_nowait(ev, w, t) == "set"

\* self._ready.wait(timeout=timeout) after w ticks of waiting: it returns True
\* once the event is set, False when the timeout has passed, and blocks otherwise
ReadyWait(ev, w, t) ==
    IF ev THEN "set" ELSE IF w >= t THEN "timeout" ELSE "blocked"

\* before LoopRunner(timeout) is called
StartInit ==
    /\ scen = "runner"
    /\ NoRest
    /\ NoFan /\ NoPair /\ NoDev /\ NoStart
    /\ loop = "new"
    /\ ops = <<>>
    /\ callerPc = "new"
    /\ waitOn = 0
    /\ timeoutArg = 0
    /\ waited = 0
    /\ outcome = "none"

\* __init__ up to the wait: the loop object is made and the one thread is
\* started; the thread needs delay ticks to get to run_forever
Construct(timeout, delay) ==
    /\ scen = "runner" /\ callerPc = "new"
    /\ workers' = workers + 1
    /\ loop' = "starting"
    /\ startDelay' = delay
    /\ timeoutArg' = timeout
    /\ waited' = 0
    /\ callerPc' = "constructing"
    /\ UNCHANGED <<scen, restVars, ops, waitOn, outcome, readyEv, fanVars, pairVars, devVars>>

\* _runner: set_event_loop, call_soon_threadsafe(self._ready.set), run_forever()
ThreadRun ==
    /\ scen = "runner" /\ loop = "starting" /\ startDelay = 0
    /\ loop' = "running"
    /\ UNCHANGED <<scen, restVars, ops, callerPc, waitOn, timeoutArg, waited, outcome,
                   workers, readyEv, startDelay, fanVars, pairVars, devVars>>

\* the running loop runs its first callback, self._ready.set
ReadySet ==
    /\ scen = "runner" /\ loop = "running" /\ ~readyEv
    /\ readyEv' = TRUE
    /\ UNCHANGED <<scen, restVars, loop, ops, callerPc, waitOn, timeoutArg, waited, outcome,
                   workers, startDelay, fanVars, pairVars, devVars>>

\* one tick passes while the thread is starting; time does not pass the
\* deadline of the constructor's wait
StartTick ==
    /\ scen = "runner"
    /\ callerPc = "constructing" \/ (loop = "starting" /\ startDelay > 0)
    /\ callerPc = "constructing" => waited < timeoutArg
    /\ waited' = IF callerPc = "constructing" THEN waited + 1 ELSE waited
    /\ startDelay' = IF loop = "starting" /\ startDelay > 0 THEN startDelay - 1 ELSE startDelay
    /\ UNCHANGED <<scen, restVars, loop, ops, callerPc, waitOn, timeoutArg, outcome,
                   workers, readyEv, fanVars, pairVars, devVars>>

\* the wait returned True: __init__ returns the runner
CtorReturn ==
    /\ scen = "runner" /\ callerPc = "constructing"
    /\ ReadyWait(readyEv, waited, timeoutArg) = "set"
    /\ callerPc' = "idle"
    /\ outcome' = "constructed"
    /\ UNCHANGED <<scen, restVars, loop, ops, waitOn, timeoutArg, waited, fanVars, pairVars,
                   startVars, devVars>>

\* the wait returned False: raise RuntimeError("LoopRunner thread failed to start")
CtorFail ==
    /\ scen = "runner" /\ callerPc = "constructing"
    /\ ReadyWait(readyEv, waited, timeoutArg) = "timeout"
    /\ callerPc' = "failed"
    /\ outcome' = "start:RuntimeError"
    /\ UNCHANGED <<scen, restVars, loop, ops, waitOn, timeoutArg, waited, fanVars, pairVars,
                   startVars, devVars>>

StartNext ==
    \/ \E timeout \in 0..MaxTimeout, delay \in 0..MaxDur : Construct(timeout, delay)
    \/ ThreadRun
    \/ ReadySet
    \/ StartTick
    \/ CtorReturn
    \/ CtorFail

\* a LoopRunner from before its construction on
SpecStart == StartInit /\ [][StartNext \/ RunnerNext]_vars

(* VNSDevice: a LoopRunner with a BleakClient. Each method hands a coroutine *)
(* to the loop through run(); the coroutine makes the call on the client     *)
(* when the loop starts it.                                                  *)

\* the ways run() ends with an exception: the wait timed out, the coroutine
\* raised, the loop is not running
RunErrors == {"TimeoutError", "raised", "RuntimeError"}

\* connect: run_timeout = timeout * retries + 1
RunTimeout(timeout, retries) == timeout * retries + 1

\* a disconnect that swallows what run() raises
DisconnectResult_swallow(o) == "ok"

\* disconnect is self.run(disconnect_async(self._client), timeout=timeout) and
\* nothing else: what run() raises leaves disconnect
DisconnectResult(o) == IF o \in RunErrors THEN o ELSE "ok"

\* an operation method is return self.run(...)
OpResult(o) == IF o \in RunErrors THEN o ELSE "ok"

\* a VNSDevice just constructed: its runner is running, nothing was called
DevInit ==
    /\ scen = "device"
    /\ NoRest
    /\ NoFan /\ NoPair /\ NoDev
    /\ Constructed
    /\ loop = "running"
    /\ ops = <<>>
    /\ callerPc = "idle"
    /\ waitOn = 0
    /\ timeoutArg = 0
    /\ waited = 0
    /\ outcome = "none"

\* the retries arguments tried: an int, zero and a negative one included
RetriesArgs == {-1} \cup 0..MaxRetries

\* a retry loop that makes its first turn whatever retries is
Turns_atleastone(retries) == IF retries > 1 THEN retries ELSE 1
\* the turns of for _ in range(retries): none when retries <= 0
Turns(retries) == IF retries > 0 THEN retries ELSE 0

\* connect(retries, timeout) is called
DevConnect(retries, timeout) ==
    /\ scen = "device" /\ callerPc = "idle" /\ ~InCall
    /\ dcall' = "connect" /\ dres' = "none"
    /\ attempt' = 0 /\ retriesArg' = retries /\ dtimeout' = timeout
    /\ disconnected' = FALSE /\ afterOk' = FALSE
    /\ outcome' = "none"
    /\ UNCHANGED <<scen, restVars, loop, ops, callerPc, waitOn, timeoutArg, waited,
                   fanVars, pairVars, startVars>>

\* one turn of for _ in range(retries): self.run(connect_async(...), run_timeout)
ConnectAttempt(dur) ==
    /\ scen = "device" /\ callerPc = "idle"
    /\ dcall = "connect" /\ dres = "none"
    /\ outcome \notin RunErrors
    /\ attempt < Turns(retriesArg)
    /\ LoopIsRunning(loop) => Len(ops) < MaxCalls
    /\ RunCall(dur, RunTimeout(dtimeout, retriesArg))
    /\ attempt' = attempt + 1
    /\ afterOk' = (outcome = "result")
    /\ UNCHANGED <<scen, restVars, loop, fanVars, pairVars, startVars,
                   dcall, dres, retriesArg, dtimeout, disconnected>>

\* the for loop has made its retries turns: connect returns
ConnectReturn ==
    /\ scen = "device" /\ callerPc = "idle"
    /\ dcall = "connect" /\ dres = "none"
    /\ outcome \notin RunErrors
    /\ attempt = Turns(retriesArg)
    /\ dres' = "ok"
    /\ UNCHANGED <<scen, restVars, loop, ops, callerPc, waitOn, timeoutArg, waited, outcome,
                   fanVars, pairVars, startVars,
                   dcall, attempt, retriesArg, dtimeout, disconnected, afterOk>>

\* run() raised inside the for loop: the exception leaves connect
ConnectRaise ==
    /\ scen = "device" /\ callerPc = "idle"
    /\ dcall = "connect" /\ dres = "none"
    /\ outcome \in RunErrors
    /\ dres' = outcome
    /\ UNCHANGED <<scen, restVars, loop, ops, callerPc, waitOn, timeoutArg, waited, outcome,
                   fanVars, pairVars, startVars,
                   dcall, attempt, retriesArg, dtimeout, disconnected, afterOk>>

\* disconnect(timeout) is called: self.run(disconnect_async(...), timeout)
DevDisconnect(dur, timeout) ==
    /\ scen = "device" /\ callerPc = "idle" /\ ~InCall
    /\ LoopIsRunning(loop) => Len(ops) < MaxCalls
    /\ dcall' = "disconnect" /\ dres' = "none"
    /\ RunCall(dur, timeout)
    /\ attempt' = 0 /\ retriesArg' = 0 /\ dtimeout' = 0 /\ afterOk' = FALSE
    /\ UNCHANGED <<scen, restVars, loop, fanVars, pairVars, startVars, disconnected>>

\* run() has ended: disconnect ends the same way
DisconnectEnd ==
    /\ scen = "device" /\ callerPc = "idle"
    /\ dcall = "disconnect" /\ dres = "none"
    /\ dres' = DisconnectResult(outcome)
    /\ disconnected' = (disconnected \/ DisconnectResult(outcome) = "ok")
    /\ UNCHANGED <<scen, restVars, loop, ops, callerPc, waitOn, timeoutArg, waited, outcome,
                   fanVars, pairVars, startVars,
                   dcall, attempt, retriesArg, dtimeout, afterOk>>

\* an operation method (get_sys_config, set_sys_config, start_notification,
\* stop_notification, increase_intensity, ...) is called: return self.run(...)
DevOp(dur, timeout) ==
    /\ scen = "device" /\ callerPc = "idle" /\ ~InCall
    /\ LoopIsRunning(loop) => Len(ops) < MaxCalls
    /\ dcall' = "op" /\ dres' = "none"
    /\ RunCall(dur, timeout)
    /\ attempt' = 0 /\ retriesArg' = 0 /\ dtimeout' = 0 /\ afterOk' = FALSE
    /\ UNCHANGED <<scen, restVars, loop, fanVars, pairVars, startVars, disconnected>>

\* run() has ended: the operation method ends the same way
OpEnd ==
    /\ scen = "device" /\ callerPc = "idle"
    /\ dcall = "op" /\ dres = "none"
    /\ dres' = OpResult(outcome)
    /\ UNCHANGED <<scen, restVars, loop, ops, callerPc, waitOn, timeoutArg, waited, outcome,
                   fanVars, pairVars, startVars,
                   dcall, attempt, retriesArg, dtimeout, disconnected, afterOk>>

DevNext ==
    \/ \E retries \in RetriesArgs, timeout \in 0..MaxTimeout : DevConnect(retries, timeout)
    \/ \E dur \in 0..MaxDur : ConnectAttempt(dur)
    \/ ConnectReturn
    \/ ConnectRaise
    \/ \E dur \in 0..MaxDur, timeout \in 0..MaxTimeout : DevDisconnect(dur, timeout)
    \/ DisconnectEnd
    \/ \E dur \in 0..MaxDur, timeout \in 0..MaxTimeout : DevOp(dur, timeout)
    \/ OpEnd
    \/ LoopNext

SpecDevice == DevInit /\ [][DevNext]_vars

-----------------------------------------------------------------------------
(* One shell routine awaited on one connected device.  A behaviour is one   *)
(* routine call, or a routine_set_config followed by the routine_get_config *)
(* that reads the config back.                                              *)

ShellRoutines ==
    {"get_battery", "get_version", "get_oob_key", "set_oob_key", "del_oob_key",
     "get_config", "set_config"}

\* the texts of length at most k over the characters cs
RECURSIVE TextsUpTo(_, _)
TextsUpTo(cs, k) ==
    IF k = 0 THEN {<<>>}
    ELSE LET shorter == TextsUpTo(cs, k - 1) IN
         shorter \cup {Append(t, c) : t \in shorter, c \in cs}

\* how a shell reply may begin, and what may follow
ShPrefixes == {<<>>, OKPrefix, <<" ">> \o OKPrefix, <<"O", "K">>, TxtERR}
ShChars == {" ", "4", "2"}
ShTexts == {p \o b : p \in ShPrefixes, b \in TextsUpTo(ShChars, MaxBody)}

\* the serialized configs handed to routine_set_config
ByteVals == {0, 77, 255}
Payloads == TextsUpTo(ByteVals, MaxPayload)

\* a device answering cfg get with the text it holds puts it after the status
\* prefix, with or without blanks around it
CfgTexts(held) ==
    {OKPrefix \o sep \o held \o tail : sep \in {<<>>, <<" ">>}, tail \in {<<>>, <<" ">>}}
    \cup {TxtERR}

ShellRequest(r, value) ==
    CASE r = "get_battery" -> CmdBatt
      [] r = "get_version" -> CmdVersion
      [] r = "get_oob_key" -> CmdBondGet
      [] r = "set_oob_key" -> CmdBondSet("kA")
      [] r = "del_oob_key" -> CmdBondDel
      [] r = "get_config" -> CmdCfgGet
      [] r = "set_config" -> request_set_config(value)

ShellRoutine(r, response) ==
    CASE r = "get_battery" -> routine_get_battery(response)
      [] r = "get_version" -> routine_get_version(response)
      [] r = "get_oob_key" -> routine_get_oob_key(response)
      [] r = "set_oob_key" -> routine_set_oob_key(response)
      [] r = "del_oob_key" -> routine_del_oob_key(response)
      [] r = "get_config" -> routine_get_config(response)
      [] r = "set_config" -> routine_set_config(response)

ShellOutputs(r, held) ==
    IF r = "get_config" THEN CfgTexts(held)
    ELSE IF r = "set_config" THEN {TxtOK, TxtERR}
    ELSE ShTexts

ShellReplies(r, held) == {ErrResp, TransportExc} \cup {OkResp(o) : o \in ShellOutputs(r, held)}

ShellInit ==
    /\ scen = "shell"
    /\ NoFan /\ NoPair /\ NoRunner
    /\ NoShell /\ NoDfu /\ NoCli /\ NoBle

\* the routine builds its request and awaits dev.request(...)
ShellCall(r, value) ==
    /\ scen = "shell"
    /\ \/ shCall = "none"
       \/ shCall = "set_config" /\ shRet.kind # "pending" /\ r = "get_config"
    /\ shCall' = r
    /\ shArg' = IF r = "set_config" THEN value ELSE shArg
    /\ shReply' = Unset
    /\ shRet' = Pending
    /\ shSent' = IF IsCfgSet(ShellRequest(r, value)) THEN ShellRequest(r, value).argv[4] ELSE shSent
    /\ exitStatus' = "none"
    /\ UNCHANGED <<scen, fanVars, pairVars, runnerVars, bleVars, dfuVars>>

\* dev.request(...) ends with response and the routine runs to its end
ShellReply(response) ==
    /\ scen = "shell"
    /\ shCall # "none"
    /\ shRet.kind = "pending"
    /\ shReply' = response
    /\ shRet' = ShellRoutine(shCall, response)
    /\ UNCHANGED <<scen, shCall, shArg, shSent, fanVars, pairVars, runnerVars, bleVars, dfuVars, cliVars>>

\* the cli command that called controller.get_config / controller.set_config
\* for this routine exits
ShellCliExit ==
    /\ scen = "shell" /\ shCall \in {"get_config", "set_config"}
    /\ shRet.kind # "pending" /\ exitStatus = "none"
    /\ exitStatus' = cli_exit(shCall, shRet.kind = "raise", shRet.val)
    /\ UNCHANGED <<scen, shellVars, fanVars, pairVars, runnerVars, bleVars, dfuVars>>

ShellNext ==
    \/ \E r \in ShellRoutines \ {"set_config"} : ShellCall(r, <<>>)
    \/ \E value \in Payloads : ShellCall("set_config", value)
    \/ \E response \in ShellReplies(shCall, shSent) : ShellReply(response)
    \/ ShellCliExit

SpecShell == ShellInit /\ [][ShellNext]_vars

-----------------------------------------------------------------------------
(* controller.dfu: six gathers and one sleep, each gather awaited before    *)
(* the next statement runs.                                                 *)

DfuPhases == <<"connect", "bootmode", "reboot", "settle", "reconnect", "upload", "final">>
\* the position of a phase in the sequence; 0 for "none"
PhaseIx(p) == IF p = "none" THEN 0 ELSE CHOOSE k \in 1..Len(DfuPhases) : DfuPhases[k] = p
GatherPhases == {"connect", "bootmode", "reboot", "reconnect", "upload", "final"}
DfuDevs == 1..dn

\* await asyncio.gather(...) has returned: every child is done and none raised
PhaseDone_any == \E i \in DfuDevs : dchild[i] = "returned"
PhaseDone == \A i \in DfuDevs : dchild[i] = "returned"

\* time.sleep calls made for a batch of k devices
SettleCount_each(k) == k
SettleCount(k) == 1

\* the request the phase's routine sends
DfuRequest(phase) == IF phase = "bootmode" THEN CmdDfu ELSE CmdResetWrite
DfuRoutine(phase, response) ==
    IF phase = "bootmode" THEN routine_set_bootmode(response) ELSE routine_reboot(response)

DfuInit ==
    /\ scen = "dfu"
    /\ NoFan /\ NoPair /\ NoRunner /\ NoShell /\ NoCli /\ NoBle
    /\ dn \in 1..MaxDfuDevs
    /\ dpc = "start"
    /\ dreach = [i \in 1..dn |-> "none"]
    /\ dchild = [i \in 1..dn |-> "none"]
    /\ dfault = [i \in 1..dn |-> "none"]
    /\ doff = [i \in 1..dn |-> 0]
    /\ dsleeps = 0
    /\ dexc = FALSE
    /\ tqdmOk \in BOOLEAN

\* asyncio.gather(...) creates the child of every device and dfu awaits them
GatherStart(phase) ==
    /\ dpc' = phase
    /\ dreach' = [i \in DfuDevs |-> phase]
    /\ dchild' = [i \in DfuDevs |-> "awaiting"]
    /\ UNCHANGED <<scen, fanVars, pairVars, runnerVars, bleVars, shellVars, cliVars,
                   dn, dfault, doff, dsleeps, dexc, tqdmOk>>

DfuConnect == scen = "dfu" /\ dpc = "start" /\ GatherStart("connect")
DfuSetBootmode == scen = "dfu" /\ dpc = "connect" /\ PhaseDone /\ GatherStart("bootmode")
DfuReboot == scen = "dfu" /\ dpc = "bootmode" /\ PhaseDone /\ GatherStart("reboot")

\* time.sleep(5): the thread is blocked, nothing else runs on the loop
DfuSleep ==
    /\ scen = "dfu" /\ dpc = "reboot" /\ PhaseDone
    /\ dpc' = "settle"
    /\ dreach' = [i \in DfuDevs |-> "settle"]
    /\ dsleeps' = dsleeps + SettleCount(dn)
    /\ UNCHANGED <<scen, fanVars, pairVars, runnerVars, bleVars, shellVars, cliVars,
                   dn, dchild, dfault, doff, dexc, tqdmOk>>

DfuReconnect == scen = "dfu" /\ dpc = "settle" /\ GatherStart("reconnect")
DfuUpload == scen = "dfu" /\ dpc = "reconnect" /\ PhaseDone /\ GatherStart("upload")
DfuFinalReboot == scen = "dfu" /\ dpc = "upload" /\ PhaseDone /\ GatherStart("final")

\* the last gather has returned: dfu returns None
DfuReturn ==
    /\ scen = "dfu" /\ dpc = "final" /\ PhaseDone
    /\ dpc' = "returned"
    /\ UNCHANGED <<scen, fanVars, pairVars, runnerVars, bleVars, shellVars, cliVars,
                   dn, dreach, dchild, dfault, doff, dsleeps, dexc, tqdmOk>>

\* how the child of device i ends, given what its routine does last
ChildEnd(i, step, fault) ==
    /\ dchild' = [dchild EXCEPT ![i] = IF step.kind = "raise" THEN "raised" ELSE "returned"]
    /\ dexc' = (dexc \/ step.kind = "raise")
    /\ dfault' = [dfault EXCEPT ![i] = IF fault = "none" THEN @ ELSE fault]

\* dev.connect() of device i ends: it returns, or it raises
DfuConnectEnd(i, connected) ==
    /\ scen = "dfu" /\ dpc \in {"connect", "reconnect"} /\ dchild[i] = "awaiting"
    /\ ChildEnd(i, IF connected THEN Return(None) ELSE Raise("TransportError"), "none")
    /\ UNCHANGED <<scen, fanVars, pairVars, runnerVars, bleVars, shellVars, cliVars,
                   dn, dpc, dreach, doff, dsleeps, tqdmOk>>

\* the request of routine_set_bootmode / routine_reboot for device i ends
DfuCommandEnd(i, response) ==
    /\ scen = "dfu" /\ dpc \in {"bootmode", "reboot", "final"} /\ dchild[i] = "awaiting"
    /\ LET step == DfuRoutine(dpc, response) IN
       ChildEnd(i, step, IF step = Return(BoolV(FALSE)) THEN "command" ELSE "none")
    /\ UNCHANGED <<scen, fanVars, pairVars, runnerVars, bleVars, shellVars, cliVars,
                   dn, dpc, dreach, doff, dsleeps, tqdmOk>>

\* the upload stream of device i yields its next offset
DfuChunk(i) ==
    /\ scen = "dfu" /\ dpc = "upload" /\ dchild[i] = "awaiting"
    /\ doff[i] < MaxChunks
    /\ doff' = [doff EXCEPT ![i] = @ + 1]
    /\ UNCHANGED <<scen, fanVars, pairVars, runnerVars, bleVars, shellVars, cliVars,
                   dn, dpc, dreach, dchild, dfault, dsleeps, dexc, tqdmOk>>

\* the upload stream of device i ends: exhausted once every offset was
\* yielded, or raising at any point
DfuUploadEnd(i, streamEnd) ==
    /\ scen = "dfu" /\ dpc = "upload" /\ dchild[i] = "awaiting"
    /\ streamEnd = "exhausted" => doff[i] = MaxChunks
    /\ ChildEnd(i, routine_upload_image(tqdmOk, streamEnd),
                IF streamEnd = "raised" THEN "upload" ELSE "none")
    /\ UNCHANGED <<scen, fanVars, pairVars, runnerVars, bleVars, shellVars, cliVars,
                   dn, dpc, dreach, doff, dsleeps, tqdmOk>>

\* gather re-raises the exception of a child into dfu, which ends with it;
\* asyncio.run cancels the children still running
DfuGatherRaise ==
    /\ scen = "dfu" /\ dpc \in GatherPhases /\ dexc
    /\ dpc' = "raised"
    /\ dchild' = CancelPending(dchild, "awaiting")
    /\ dexc' = FALSE
    /\ UNCHANGED <<scen, fanVars, pairVars, runnerVars, bleVars, shellVars, cliVars,
                   dn, dreach, dfault, doff, dsleeps, tqdmOk>>

DfuNext ==
    \/ DfuConnect
    \/ DfuSetBootmode
    \/ DfuReboot
    \/ DfuSleep
    \/ DfuReconnect
    \/ DfuUpload
    \/ DfuFinalReboot
    \/ DfuReturn
    \/ \E i \in DfuDevs, connected \in BOOLEAN : DfuConnectEnd(i, connected)
    \/ \E i \in DfuDevs, response \in Replies(DfuRequest(dpc)) : DfuCommandEnd(i, response)
    \/ \E i \in DfuDevs : DfuChunk(i)
    \/ \E i \in DfuDevs, streamEnd \in {"exhausted", "raised"} : DfuUploadEnd(i, streamEnd)
    \/ DfuGatherRaise

SpecDfu == DfuInit /\ [][DfuNext]_vars

-----------------------------------------------------------------------------
(* Scanner: start() and stop() around a BleakScanner, whose mapping of      *)
(* discovered devices grows while it scans.                                 *)

Addrs == 1..MaxAddrs
SmartVNS == <<"S", "m", "a", "r", "t", "V", "N", "S">>
\* the names a discovered BLEDevice may carry; None when it advertises none
ScanNames ==
    {None, StrV(<<>>), StrV(SmartVNS), StrV(<<"x">> \o SmartVNS \o <<"1">>),
     StrV(<<"s", "m", "a", "r", "t", "v", "n", "s">>), StrV(<<"S", "m", "a", "r", "t">>)}

\* sub in s
Contains(sub, s) ==
    \E k \in 0..(Len(s) - Len(sub)) : SubSeq(s, k + 1, k + Len(sub)) = sub
\* sub is at the start of s
ContainsAtStart(sub, s) == Len(s) >= Len(sub) /\ SubSeq(s, 1, Len(sub)) = sub

\* v[0].name and "SmartVNS" in v[0].name, for an item <<k, <<device name, adv>>>>
NameMatches_prefix(item) ==
    item[2][1] # None /\ item[2][1][2] # <<>> /\ ContainsAtStart(SmartVNS, item[2][1][2])
NameMatches(item) ==
    item[2][1] # None /\ item[2][1][2] # <<>> /\ Contains(SmartVNS, item[2][1][2])

\* {k: v for k, v in devices.items() if ...}
_filter_devices(devices) == {item \in devices : NameMatches(item)}

ScanInit ==
    /\ scen = "scan"
    /\ NoFan /\ NoPair /\ NoRunner /\ NoShell /\ NoDfu /\ NoCli /\ NoStim
    /\ scState = "new"
    /\ scFound = {}
    /\ scDevices = {}
    /\ scStopped = FALSE

\* start(): self.run(self.scanner.start()) returns, or raises
ScanStart(returned) ==
    /\ scen = "scan" /\ scState \in {"new", "stopped"}
    /\ scState' = IF returned THEN "scanning" ELSE scState
    /\ UNCHANGED <<scen, scFound, scDevices, scStopped,
                   fanVars, pairVars, runnerVars, shellVars, dfuVars, cliVars, stimVars>>

\* the running BleakScanner sees an advertisement of address k: the item of k
\* is added to, or replaced in, its mapping
ScanDiscover(k, name) ==
    /\ scen = "scan" /\ scState = "scanning"
    /\ scFound' = {item \in scFound : item[1] # k} \cup {<<k, <<name, "adv">>>>}
    /\ UNCHANGED <<scen, scState, scDevices, scStopped,
                   fanVars, pairVars, runnerVars, shellVars, dfuVars, cliVars, stimVars>>

\* stop(): self.run(self.scanner.stop()) returns and self.devices is set, or
\* run raises and the assignment is not reached
ScanStop(returned) ==
    /\ scen = "scan"
    /\ IF returned
       THEN /\ scState' = "stopped"
            /\ scDevices' = _filter_devices(scFound)
            /\ scStopped' = TRUE
       ELSE UNCHANGED <<scState, scDevices, scStopped>>
    /\ UNCHANGED <<scen, scFound,
                   fanVars, pairVars, runnerVars, shellVars, dfuVars, cliVars, stimVars>>

ScanNext ==
    \/ \E returned \in BOOLEAN : ScanStart(returned)
    \/ \E k \in Addrs, name \in ScanNames : ScanDiscover(k, name)
    \/ \E returned \in BOOLEAN : ScanStop(returned)

SpecScan == ScanInit /\ [][ScanNext]_vars

-----------------------------------------------------------------------------
(* Stimulator.trigger on one connected stimulator, with a second thread     *)
(* that calls set_stim_config on the same object.  The device holds its     *)
(* stimulation config as the value of STIM_CHAR; a config is modelled with   *)
(* the fields retain_cfg, trigger_ms and intensity_uA (forward_us,           *)
(* deadband_us and period_us are carried exactly as intensity_uA is).        *)

MsVals == 0..MaxMs
UaVals == {100, 150}
StimConfigs == [retain_cfg : BOOLEAN, trigger_ms : MsVals, intensity_uA : UaVals]
\* the fields of a StimConfig other than trigger_ms
OtherFields == {"retain_cfg", "intensity_uA"}

\* cfg.SerializeToString(): the fields in field order, a bool as 0 or 1
SerializeToString(cfg) ==
    <<IF cfg.retain_cfg THEN 1 ELSE 0, cfg.trigger_ms, cfg.intensity_uA>>
\* cfg = StimConfig(); cfg.ParseFromString(data)
ParseFromString(data) ==
    [retain_cfg |-> data[1] # 0, trigger_ms |-> data[2], intensity_uA |-> data[3]]

\* read_stim_config_async: read_gatt_char(STIM_CHAR), parsed
read_stim_config_async(dev) == ParseFromString(dev)
\* write_stim_config_async: Stim(config=cfg).SerializeToString(), the command
\* written to STIM_CHAR
write_stim_config_async(cfg) == <<"config">> \o SerializeToString(cfg)
\* the stimulator takes the config of a "set config" command as its own
DeviceAfter(dev, cmd) == IF cmd[1] = "config" THEN Tail(cmd) ELSE dev

\* a trigger that builds the config to write from scratch
TriggerCfg_scratch(cfg, dev, duration_ms) ==
    [retain_cfg |-> FALSE, trigger_ms |-> duration_ms, intensity_uA |-> 100]
\* a trigger that reads and writes in one step on the device
TriggerCfg_atomic(cfg, dev, duration_ms) ==
    [read_stim_config_async(dev) EXCEPT !.trigger_ms = duration_ms]
\* trigger: cfg.trigger_ms = duration_ms on the cfg get_stim_config returned;
\* what the device holds by now (dev) plays no part
TriggerCfg(cfg, dev, duration_ms) == [cfg EXCEPT !.trigger_ms = duration_ms]

\* a connected Stimulator, its device holding some config; nothing called yet
StimInit ==
    /\ scen = "stim"
    /\ NoFan /\ NoPair /\ NoRunner /\ NoShell /\ NoDfu /\ NoCli /\ NoScan
    /\ stDev \in {SerializeToString(c) : c \in StimConfigs}
    /\ stPc = "idle"
    /\ stDur = 0
    /\ stCfg = None
    /\ stReadData = <<>>
    /\ stWritten = <<>>
    /\ stOther = <<>>
    /\ stSets = 0
    /\ stBetween = FALSE

\* trigger(duration_ms, timeout) is called: cfg = self.get_stim_config() hands
\* read_stim_config_async to the loop
StimTrigger(duration_ms) ==
    /\ scen = "stim" /\ stPc = "idle"
    /\ stPc' = "reading"
    /\ stDur' = duration_ms
    /\ UNCHANGED <<scen, stDev, stCfg, stReadData, stWritten, stOther, stSets, stBetween,
                   fanVars, pairVars, runnerVars, shellVars, dfuVars, cliVars, scanVars>>

\* get_stim_config() ends: run() returns the config parsed from the bytes the
\* device holds now, or raises and the exception leaves trigger
StimRead(returned) ==
    /\ scen = "stim" /\ stPc = "reading"
    /\ IF returned
       THEN /\ stPc' = "read"
            /\ stReadData' = stDev
            /\ stCfg' = read_stim_config_async(stDev)
       ELSE /\ stPc' = "raised"
            /\ UNCHANGED <<stReadData, stCfg>>
    /\ UNCHANGED <<scen, stDev, stDur, stWritten, stOther, stSets, stBetween,
                   fanVars, pairVars, runnerVars, shellVars, dfuVars, cliVars, scanVars>>

\* cfg.trigger_ms = duration_ms; self.set_stim_config(cfg, timeout) hands
\* write_stim_config_async to the loop
StimModify ==
    /\ scen = "stim" /\ stPc = "read"
    /\ stPc' = "writing"
    /\ stCfg' = TriggerCfg(stCfg, stDev, stDur)
    /\ UNCHANGED <<scen, stDev, stDur, stReadData, stWritten, stOther, stSets, stBetween,
                   fanVars, pairVars, runnerVars, shellVars, dfuVars, cliVars, scanVars>>

\* set_stim_config() ends: the write reached the device and run() returns;
\* or write_gatt_char raised; or the wait timed out with the write still on
\* the loop
StimWrite(how) ==
    /\ scen = "stim" /\ stPc = "writing"
    /\ IF how = "returned"
       THEN /\ stPc' = "done"
            /\ stWritten' = write_stim_config_async(stCfg)
            /\ stDev' = DeviceAfter(stDev, write_stim_config_async(stCfg))
       ELSE /\ stPc' = IF how = "TimeoutError" THEN "timedout" ELSE "raised"
            /\ UNCHANGED <<stWritten, stDev>>
    /\ UNCHANGED <<scen, stDur, stCfg, stReadData, stOther, stSets, stBetween,
                   fanVars, pairVars, runnerVars, shellVars, dfuVars, cliVars, scanVars>>

\* the write of a set_stim_config whose wait timed out reaches the device
\* after trigger has raised TimeoutError
StimLateWrite ==
    /\ scen = "stim" /\ stPc = "timedout" /\ stWritten = <<>>
    /\ stWritten' = write_stim_config_async(stCfg)
    /\ stDev' = DeviceAfter(stDev, write_stim_config_async(stCfg))
    /\ UNCHANGED <<scen, stPc, stDur, stCfg, stReadData, stOther, stSets, stBetween,
                   fanVars, pairVars, runnerVars, shellVars, dfuVars, cliVars, scanVars>>

\* a set_stim_config(cfg) of the other thread takes effect on the device: its
\* coroutine runs on the loop whenever no coroutine of trigger is running
OtherSetStimConfig(cfg) ==
    /\ scen = "stim" /\ stSets < MaxSets
    /\ stSets' = stSets + 1
    /\ stOther' = write_stim_config_async(cfg)
    /\ stDev' = DeviceAfter(stDev, write_stim_config_async(cfg))
    /\ stBetween' = (stBetween \/ (stReadData # <<>> /\ stWritten = <<>>
                                   /\ stPc \in {"read", "writing", "timedout"}))
    /\ UNCHANGED <<scen, stPc, stDur, stCfg, stReadData, stWritten,
                   fanVars, pairVars, runnerVars, shellVars, dfuVars, cliVars, scanVars>>

StimNext ==
    \/ \E duration_ms \in MsVals : StimTrigger(duration_ms)
    \/ \E returned \in BOOLEAN : StimRead(returned)
    \/ StimModify
    \/ \E how \in {"returned", "raised", "TimeoutError"} : StimWrite(how)
    \/ StimLateWrite
    \/ \E cfg \in StimConfigs : OtherSetStimConfig(cfg)

SpecStim == StimInit /\ [][StimNext]_vars

Init == FanInit \/ PairInit \/ RunnerInit \/ StartInit \/ DevInit \/ ShellInit \/ DfuInit \/ ScanInit \/ StimInit
Next == FanNext \/ PairNext \/ RunnerNext \/ StartNext \/ DevNext \/ ShellNext \/ DfuNext \/ ScanNext \/ StimNext
Spec == Init /\ [][Next]_vars

-----------------------------------------------------------------------------
(* Claims about the fan-out *)

\* the outcome of the device at ports[i]: what its routine makes of the device's
\* own reply, and the failure marker None when it never replied or the routine raised
SlotOutcome(i) ==
    IF conn[i] # "connected" \/ lastReply[i] = Unset THEN None
    ELSE LET step == RoutineStep(op, stage[i], lastReply[i]) IN
         IF step.kind = "return" THEN step.val ELSE None

\* C1: a fan-out that returns results (get_battery, get_version) ends with a list
\* as long as the port list whose element i is the outcome of the device at
\* ports[i], whichever devices failed to connect or failed the operation.
C1_ResultsAligned ==
    (scen = "fan" /\ op \in ListOps /\ fpc \in Finished) =>
        /\ result.returned /\ result.list
        /\ Len(result.value) = n
        /\ \A i \in Devs : result.value[i] = SlotOutcome(i)

\* C2: when a device fails to connect, the fan-out still issues the operation to
\* every other device and still delivers their outcomes to the caller.
C2_ConnectFailureIsolated ==
    \A i, j \in Devs :
        (scen = "fan" /\ fpc \in Finished /\ i # j /\ conn[j] = "failed" /\ conn[i] # "failed")
        => /\ issued[i] # <<>>
           /\ result.returned

\* some step on behalf of device i
Advance(i) ==
    ConnectAll \/ ConnectBegin(i) \/ ConnectOk(i) \/ ConnectFail(i) \/ StartOps \/ ReqComplete(i)

\* C3: while the connect of one device is pending, every other device that has
\* not failed and has not finished its operation can take its next step (start
\* or finish its connect, start or finish its operation).
C3_HangDoesNotDelay ==
    \A i, j \in Devs :
        ( /\ scen = "fan" /\ i # j /\ fpc \notin Finished
          /\ conn[j] = "pending"
          /\ conn[i] # "failed" /\ task[i] \notin {"done", "raised"} )
        => ENABLED Advance(i)

\* C4: when every device connected and no request raised in the transport, an
\* operation failure (error response, output without OK:, unparseable payload)
\* fails only its own slot: the call returns normally and every slot holds its
\* own device's outcome.
C4_OpFailureIsolated ==
    ( /\ scen = "fan" /\ fpc \in Finished
      /\ \A i \in Devs : conn[i] = "connected" /\ lastReply[i] # TransportExc )
    => /\ result.returned
       /\ op \in ListOps => \A i \in Devs : result.value[i] = SlotOutcome(i)

-----------------------------------------------------------------------------
(* Claims about pair and unpair *)

HasBondSet(i) == \E k \in 1..Len(issued[i]) : IsBondSet(issued[i][k])
IsKey(v) == v[1] = "str"
FetchFailed(i) == keys[i] = None \/ keys[i][1] = "raise"

\* C5: in pair, if the key fetch of either device fails (the request raises, an
\* error response, an output without OK:, so that no key results), no key-write
\* command is issued to either device.
C5_NoWriteAfterFailedFetch ==
    (scen = "pair" /\ op = "pair" /\ \E i \in Devs : FetchFailed(i))
    => \A j \in Devs : ~HasBondSet(j)

\* pair has ended, one fetch had failed while the other had produced a key
C5_Witness ==
    /\ scen = "pair" /\ op = "pair" /\ fpc = "returned"
    /\ keys[1] = None /\ IsKey(keys[2]) /\ lastReply[1] = OkResp(TxtERR)

\* C6: in pair, a key-write command is issued only after both fetches have
\* completed with a key, and the key written to each device is exactly the key
\* fetched from the other one.
C6_ExchangeSwapsKeys ==
    \A i \in Devs : \A k \in 1..Len(issued[i]) :
        (scen = "pair" /\ op = "pair" /\ IsBondSet(issued[i][k]))
        => /\ IsKey(keys[1]) /\ IsKey(keys[2])
           /\ issued[i][k].argv[4] = keys[Other(i)]
           /\ k > 1 /\ issued[i][k - 1] = CmdBondGet

\* both writes have been issued and acknowledged, with two different keys
C6_Witness ==
    /\ scen = "pair" /\ op = "pair" /\ fpc = "returned"
    /\ HasBondSet(1) /\ HasBondSet(2)
    /\ keys[1] # keys[2]
    /\ bond[1] = keys[2] /\ bond[2] = keys[1]

Paired == IsKey(keys[1]) /\ IsKey(keys[2]) /\ bond[1] = keys[2] /\ bond[2] = keys[1]

\* C7: after a run of pair in which no request raised in the transport, either
\* both devices store the other's key or neither device's stored key was changed
\* (no partial pairing), also when one of the two key writes failed.
C7_NoPartialPairing ==
    ( /\ scen = "pair" /\ op = "pair" /\ fpc = "returned"
      /\ \A i \in Devs : lastReply[i] # TransportExc )
    => (Paired \/ bond = bond0)

\* C8: unpair sends each device the key-delete command and nothing else, both as
\* soon as the sessions are open (no fetch or validation first); a delete that
\* failed on one device leaves the other device's delete issued, and a delete the
\* other device acknowledged stays in effect and is reported as a success.
C8_UnpairIndependent ==
    (scen = "pair" /\ op = "unpair") =>
        /\ \A i \in Devs : \A k \in 1..Len(issued[i]) : issued[i][k] = CmdBondDel
        /\ (\A i \in Devs : conn[i] \in {"connected", "closed"}) /\ fpc # "connecting"
             => \A i \in Devs : issued[i] = <<CmdBondDel>>
        /\ \A i \in Devs :
             (task[i] = "done" /\ ret[i] = BoolV(FALSE)) =>
                 /\ bond[i] = bond0[i]
                 /\ issued[Other(i)] = <<CmdBondDel>>
        /\ \A i \in Devs :
             (task[i] = "done" /\ ret[i] = BoolV(TRUE)) => bond[i] = NoBond

\* unpair has returned with a failed delete on device 1 and device 2 unpaired
C8_Witness ==
    /\ scen = "pair" /\ op = "unpair" /\ fpc = "returned"
    /\ ret[1] = BoolV(FALSE) /\ ret[2] = BoolV(TRUE)
    /\ bond0[1] = OldBond /\ bond0[2] = OldBond
    /\ bond[1] = OldBond /\ bond[2] = NoBond

-----------------------------------------------------------------------------
(* Claims about LoopRunner *)

\* C9: a run() whose coroutine has not completed when the timeout elapses
\* raises TimeoutError at the deadline: the caller is never kept waiting past
\* the timeout, a TimeoutError comes exactly when the timeout has elapsed, and a
\* result is only returned for a coroutine that needed no longer than the timeout.
C9_TimeoutAtDeadline ==
    scen = "runner" =>
        /\ callerPc = "waiting" => waited <= timeoutArg
        /\ outcome = "TimeoutError" => waited = timeoutArg
        /\ outcome = "result" => (ops[waitOn].dur <= waited /\ waited <= timeoutArg)
        /\ (callerPc = "waiting" /\ waited = timeoutArg /\ ops[waitOn].state # "done")
             => (ENABLED CallerTimeout /\ ~ENABLED Tick)

\* the caller got TimeoutError after timeoutArg ticks from a coroutine that needs
\* longer and is still running on the loop
C9_Witness ==
    /\ scen = "runner" /\ callerPc = "idle" /\ outcome = "TimeoutError"
    /\ timeoutArg = 1 /\ waited = 1
    /\ ops[waitOn].dur = MaxDur /\ ops[waitOn].state = "running" /\ ops[waitOn].left > 0

\* C10: no two coroutines handed to the same LoopRunner are in flight on its
\* loop together, also after a run() timed out and another run() was made.
C10_OneInFlight ==
    scen = "runner" => Cardinality({k \in 1..Len(ops) : ops[k].state = "running"}) <= 1


\* C11: a run() that ends with TimeoutError leaves its coroutine on the loop as
\* it was, still in flight and not cancelled; when that coroutine completes
\* later, nothing is delivered to the caller, whose call stays ended by the
\* timeout
C11_TimeoutLeavesOpInFlight ==
    [][/\ (scen = "runner" /\ callerPc = "waiting" /\ outcome' = "TimeoutError") =>
           (ops' = ops /\ InFlight(ops'[waitOn]) /\ callerPc' = "idle")
       /\ (/\ scen = "runner" /\ callerPc = "idle" /\ outcome = "TimeoutError"
           /\ ops[waitOn].state # "done" /\ ops'[waitOn].state = "done") =>
           (outcome' = "TimeoutError" /\ callerPc' = "idle")]_vars

\* the caller was given TimeoutError and the coroutine completed afterwards
C11_Witness ==
    /\ scen = "runner" /\ callerPc = "idle" /\ outcome = "TimeoutError"
    /\ ops[waitOn].state = "done"

\* C12: coroutines start in the order they were handed to the loop: of two
\* that have started, the one submitted first started first, and none starts
\* while one submitted before it is still waiting to start
C12_StartInSubmissionOrder ==
    scen = "runner" =>
        \A j, k \in 1..Len(ops) :
            (j < k /\ ops[k].order > 0) =>
                (ops[j].order > 0 /\ ops[j].order < ops[k].order)

\* two coroutines are on the loop together, the one submitted first started
\* first and the other second
C12_Witness ==
    /\ scen = "runner" /\ Len(ops) = 2
    /\ ops[1].state = "running" /\ ops[2].state = "running"
    /\ ops[1].order = 1 /\ ops[2].order = 2

\* C13: while the loop is not running, a run() schedules nothing and the
\* caller does not start to wait: the call ends at once with RuntimeError
\* (a call is a step of a caller that is not inside run() already)
C13_RunOnStoppedLoopRaises ==
    [][(scen = "runner" /\ ~(loop = "running") /\ callerPc = "idle") =>
           /\ ops' = ops
           /\ callerPc' = "idle" /\ waitOn' = waitOn
           /\ outcome' \in {"RuntimeError", "terminate:RuntimeError"}]_vars

\* a run() on a terminated runner has raised RuntimeError
C13_Witness ==
    /\ scen = "runner" /\ loop = "closed" /\ outcome = "RuntimeError"
    /\ callerPc = "idle"

\* C14: terminate() on a runner that is already terminated returns without an
\* error
C14_TerminateIdempotent ==
    scen = "runner" => outcome # "terminate:RuntimeError"

\* the session is closed: disconnect() has returned normally, or the runner
\* was terminated
SessionClosed == disconnected \/ loop = "closed"

\* C15: an operation called on a closed session is not handed to the
\* transport: its coroutine never gets to run on the loop, and its run() can
\* only end with an error
C15_ClosedSessionFailsFast ==
    scen = "device" =>
        ((dcall = "op" /\ dres = "none" /\ SessionClosed) =>
            /\ callerPc = "waiting" => ops[waitOn].state = "scheduled"
            /\ callerPc = "idle" => outcome \in RunErrors)

\* C16: within one connect(), no attempt made after an attempt that returned
\* normally gets to call the transport
C16_NoAttemptAfterSuccess ==
    scen = "device" =>
        ((dcall = "connect" /\ dres = "none" /\ afterOk /\ callerPc = "waiting") =>
            ops[waitOn].state = "scheduled")

\* C17: connect() ends with the error of an attempt (the coroutine raised, or
\* the wait timed out) only when all retries attempts have been made
C17_RetryOnFailure ==
    scen = "device" =>
        ((dcall = "connect" /\ dres \in {"raised", "TimeoutError"}) => attempt = retriesArg)

\* C18: while connect() waits for an attempt, it has waited no longer than the
\* timeout argument
C18_AttemptWaitBounded ==
    scen = "device" =>
        ((dcall = "connect" /\ dres = "none" /\ callerPc = "waiting") => waited <= dtimeout)

\* C19 (as the code has it): disconnect() ends the way its run() ended: it
\* returns normally only when the teardown coroutine returned within the
\* timeout, and what run() raised (the coroutine's exception, TimeoutError,
\* RuntimeError) is raised to the caller
C19_DisconnectPropagates ==
    scen = "device" =>
        ((dcall = "disconnect" /\ dres # "none" /\ outcome \in RunErrors \cup {"result"}) =>
            /\ dres = (IF outcome = "result" THEN "ok" ELSE outcome)
            /\ dres = "ok" => waited <= timeoutArg)

\* the teardown coroutine raised and disconnect() raised the same to its caller
C19_Witness ==
    /\ scen = "device" /\ dcall = "disconnect" /\ dres = "raised"
    /\ outcome = "raised"

\* C19 (as the claim has it): disconnect() never ends with the teardown's
\* exception or with TimeoutError
C19_DisconnectBestEffort ==
    scen = "device" =>
        ((dcall = "disconnect" /\ dres # "none") => dres \notin {"raised", "TimeoutError"})

\* C20: the constructor starts one thread and no more; it returns a runner only
\* with the ready event set by a loop that is running, within the startup
\* timeout; when the timeout passes with the event not set it can only raise
\* RuntimeError, and then no runner is returned
C20_ConstructionStartsOneReadyWorker ==
    scen = "runner" =>
        /\ workers <= 1
        /\ callerPc \in {"constructing", "idle", "waiting", "failed"} => workers = 1
        /\ callerPc \in {"idle", "waiting"} => (readyEv /\ loop \in {"running", "closed"})
        /\ outcome = "constructed" =>
              (readyEv /\ loop = "running" /\ callerPc = "idle" /\ waited <= timeoutArg)
        /\ callerPc = "failed" => (outcome = "start:RuntimeError" /\ waited >= timeoutArg)
        /\ (callerPc = "constructing" /\ ~readyEv /\ waited >= timeoutArg) =>
              (ENABLED CtorFail /\ ~ENABLED CtorReturn /\ ~ENABLED StartTick)

\* the constructor returned after it had to wait for the thread to get ready
C20_Witness ==
    /\ scen = "runner" /\ outcome = "constructed" /\ waited > 0
    /\ workers = 1 /\ readyEv /\ loop = "running"

-----------------------------------------------------------------------------
(* The "OK:" convention of the shell routines (SpecShell).                  *)

\* the routine named r has ended on a success response carrying a text
ShellAnswered(r) ==
    scen = "shell" /\ shCall = r /\ shRet.kind # "pending" /\ shReply[1] = "ok"
\* the text has the literal status prefix
HasOKPrefix(t) == Len(t) >= 3 /\ t[1] = "O" /\ t[2] = "K" /\ t[3] = ":"
\* what follows the status prefix
AfterOK(t) == SubSeq(t, Len(OKPrefix) + 1, Len(t))
IsDigits(t) == t # <<>> /\ \A k \in 1..Len(t) : IsDigit(t[k])

\* C21: a reply that is the prefix "OK:" directly followed by digits yields
\* exactly those digits as payload ("OK:42" gives "42"): routine_get_battery
\* returns the number they spell, routine_get_version and routine_get_oob_key
\* return them as text.
C21_OKPayloadIsRemainder ==
    \A r \in {"get_battery", "get_version", "get_oob_key"} :
        (ShellAnswered(r) /\ HasOKPrefix(shReply[2]) /\ IsDigits(AfterOK(shReply[2])))
        => shRet = Return(IF r = "get_battery"
                          THEN IntV(DigitsVal(AfterOK(shReply[2])))
                          ELSE StrV(AfterOK(shReply[2])))

\* the outcomes by which a routine reports failure: None or False
FailureValues == {Return(None), Return(BoolV(FALSE))}

TransportFailures == {TransportExc, ErrResp}

\* C23: the outcome a shell routine hands its caller for a success response
\* with a non-OK text differs from the outcome it hands its caller for every
\* failure below the shell text, so the caller can tell the two layers apart.
C23_TwoLayersDistinguishable ==
    \A r \in ShellRoutines :
        (ShellAnswered(r) /\ ~HasOKPrefix(Strip(shReply[2])))
        => \A f \in TransportFailures : shRet # ShellRoutine(r, f)

\* C24: the bytes routine_set_config encoded and sent, when the device returns
\* the text it was sent after the "OK:" prefix, come out of routine_get_config
\* as exactly the bytes that went in, for every payload.
C24_ConfigRoundTrip ==
    (/\ ShellAnswered("get_config")
     /\ shSent = b64encode(shArg)
     /\ HasOKPrefix(shReply[2])
     /\ Strip(AfterOK(shReply[2])) = shSent)
    => shRet = Return(CfgV(shArg))

-----------------------------------------------------------------------------
(* The dfu sequence (SpecDfu).                                              *)

DfuEnded == scen = "dfu" /\ dpc \in {"returned", "raised"}
\* the bootloader-mode reconnect of device i has failed
ReconnectFailed(i) == dreach[i] = "reconnect" /\ dchild[i] = "raised"
\* device i has been through the upload and the final reboot
JobComplete(i) == dreach[i] = "final" /\ dchild[i] = "returned"

\* C25: when a dfu on three devices has ended, the bootloader-mode reconnect
\* failed for device 2 and nothing else failed for any device, devices 1 and 3
\* have completed the image upload and the final reboot, and device 2 was
\* taken no further than its failed reconnect.
C25_ReconnectFailureIsolated ==
    (/\ DfuEnded /\ dn = 3
     /\ ReconnectFailed(2) /\ ~ReconnectFailed(1) /\ ~ReconnectFailed(3)
     /\ \A i \in DfuDevs : dfault[i] = "none")
    => JobComplete(1) /\ JobComplete(3) /\ dreach[2] = "reconnect"

\* C26: once a command of a device has returned failure (the enter-bootloader
\* command or a reboot command returned False), no later phase is started for
\* that device: dfu issues it no further command.
C26_FailedDeviceSkipped ==
    [][\A i \in DfuDevs :
           (scen = "dfu" /\ dfault[i] = "command") => dreach'[i] = dreach[i]]_vars

\* the upload stream of device i raised after it had yielded some offsets
UploadBroke(i) == scen = "dfu" /\ dfault[i] = "upload" /\ doff[i] >= 1

\* C27: when the upload stream of a device has raised mid-upload, the failure
\* is reported: routine_upload_image does not return normally for that device,
\* no final reboot is issued to it, and dfu does not return normally.
C27_UploadFailureReported ==
    \A i \in DfuDevs :
        UploadBroke(i) =>
            /\ ~(dreach[i] = "upload" /\ dchild[i] = "returned")
            /\ dreach[i] # "final"
            /\ dpc # "returned"

\* C28: a device enters the phases connect, enter-bootloader, reboot, settle
\* delay, reconnect, upload, final reboot one after the other in exactly that
\* order, and every phase boundary is a barrier: when a device enters a phase,
\* every device of the batch is in the phase before it and has finished it.
C28_PhasesInOrderWithBarrier ==
    [][\A i \in DfuDevs :
           (scen = "dfu" /\ dreach'[i] # dreach[i]) =>
               /\ PhaseIx(dreach'[i]) = PhaseIx(dreach[i]) + 1
               /\ \A j \in DfuDevs :
                      /\ dreach[j] = dreach[i]
                      /\ dreach[j] \in GatherPhases => dchild[j] = "returned"]_vars

\* a batch of several devices has been taken through every phase
C28_Witness ==
    /\ scen = "dfu" /\ dpc = "returned" /\ dn >= 2
    /\ \A i \in DfuDevs : JobComplete(i)

\* C29: whatever the number of devices, dfu sleeps the settle delay once: the
\* sleep begins when the reboot command of every device has completed, no
\* device is in the reconnect or a later phase without the one sleep done, and
\* no second sleep is ever made.
C29_SettleOncePerBatch ==
    /\ [](scen = "dfu" =>
            /\ dsleeps <= 1
            /\ \A i \in DfuDevs : PhaseIx(dreach[i]) >= PhaseIx("settle") <=> dsleeps = 1)
    /\ [][(scen = "dfu" /\ dsleeps' # dsleeps) =>
            \A i \in DfuDevs : dreach[i] = "reboot" /\ dchild[i] = "returned"]_vars

\* a batch of several devices is reconnecting after the one sleep
C29_Witness ==
    /\ scen = "dfu" /\ dn >= 2 /\ dpc = "reconnect" /\ dsleeps = 1
    /\ \A i \in DfuDevs : dreach[i] = "reconnect"

-----------------------------------------------------------------------------
(* The exit status of the cli commands (SpecFan).                           *)

\* the result of some target device is absent or failed: the controller
\* function raised, or the list it returned has a None slot
SomeResultAbsent ==
    \/ fpc = "raised"
    \/ result.list /\ \E i \in DOMAIN result.value : result.value[i] = None

\* C30: a cli command that prints one result per port ("get battery", "get
\* version") and has exited with the result of some target device absent or
\* failed has exited with a non-zero status.
C30_FailureExitsNonZero ==
    (scen = "fan" /\ op \in ListOps /\ exitStatus # "none" /\ SomeResultAbsent)
    => exitStatus # "0"

-----------------------------------------------------------------------------
(* Scanner.devices (SpecScan).                                              *)

\* the name is a text, not empty, with "SmartVNS" somewhere inside it
IsSmartVNSName(name) ==
    /\ name[1] = "str"
    /\ Len(name[2]) > 0
    /\ \E a \in 0..Len(name[2]) : \E b \in a..Len(name[2]) :
           SubSeq(name[2], 1, a) \o SmartVNS \o SubSeq(name[2], b + 1, Len(name[2])) = name[2]

PendingOp(k) == k \in 1..Len(ops) /\ ops[k].state \in {"scheduled", "running"}

\* C33: an operation still pending when terminate() stops the loop is neither
\* completed nor cancelled, in the step that stops the loop and in every step
\* after it; and a caller blocked in run() for such an operation leaves run()
\* only when its own timeout has passed, with TimeoutError and not with the
\* RuntimeError of a runner that is not running
C33_PendingAtStopOnlyTimesOut ==
    [][(scen = "runner" /\ loop' = "closed") =>
         /\ \A k \in 1..Len(ops) :
               PendingOp(k) => k \in 1..Len(ops') /\ ops'[k].state = ops[k].state
         /\ (loop = "closed" /\ callerPc = "waiting" /\ PendingOp(waitOn)
             /\ callerPc' # "waiting") =>
               /\ outcome' = "TimeoutError"
               /\ waited >= timeoutArg]_vars

\* the loop was stopped under a blocked caller, whose wait ended in
\* TimeoutError with the operation still pending
C33_Witness ==
    /\ scen = "runner" /\ loop = "closed" /\ callerPc = "idle"
    /\ outcome = "TimeoutError" /\ PendingOp(waitOn)

\* ---- C34 ----
\* C34: a connect() called with retries <= 0 issues no connection attempt (no
\* run() call is made and no coroutine is handed to the loop while it is in
\* progress) and ends by returning normally, whatever the state of the loop
C34_NoRetriesNoAttempt ==
    /\ [](scen = "device" /\ dcall = "connect" /\ retriesArg <= 0 =>
            /\ attempt = 0
            /\ callerPc = "idle"
            /\ dres \in {"none", "ok"})
    /\ [][(scen = "device" /\ dcall = "connect" /\ retriesArg <= 0 /\ dres = "none") =>
            /\ Len(ops') <= Len(ops)
            /\ dres' \in {"none", "ok"}
            /\ (dres' = "ok" => outcome' \notin RunErrors)]_vars

\* connect(-1, timeout) has returned, no attempt made
C34_Witness ==
    /\ scen = "device" /\ dcall = "connect" /\ retriesArg < 0
    /\ dres = "ok" /\ attempt = 0

\* ---- C35, C36 ----
\* the places of the fields in the bytes of a StimConfig
TriggerMsAt == {2}
OtherFieldsAt == {1, 3}
\* trigger's write has reached the device
TriggerWrote == scen = "stim" /\ stWritten # <<>>

\* C35: what trigger(duration_ms) writes is a "set config" command carrying the
\* config it has just read with trigger_ms replaced by duration_ms: every other
\* field of the written config has the value that was read
C35_TriggerWritesReadConfig ==
    TriggerWrote =>
        /\ stWritten[1] = "config"
        /\ Len(Tail(stWritten)) = Len(stReadData)
        /\ \A i \in TriggerMsAt : Tail(stWritten)[i] = stDur
        /\ \A i \in OtherFieldsAt : Tail(stWritten)[i] = stReadData[i]

\* trigger has written, with a pulse duration other than the one it read and
\* with intensity 150 and retain_cfg set carried over from the read
C35_Witness ==
    /\ TriggerWrote /\ stPc = "done"
    /\ stReadData[2] # stDur
    /\ stReadData[1] = 1 /\ stReadData[3] = 150

\* C36: when a set_stim_config of another thread has taken effect between
\* trigger's read and trigger's write, the step in which trigger's write reaches
\* the device leaves the device with the fields other than trigger_ms as
\* trigger read them: what the other thread set in those fields is gone
C36_TriggerOverwritesConcurrentSet ==
    [][(scen = "stim" /\ stWritten = <<>> /\ stWritten' # <<>> /\ stBetween) =>
          \A i \in OtherFieldsAt : stDev'[i] = stReadData[i]]_vars

\* the device holds what trigger wrote, and a field other than trigger_ms that
\* the other thread had set in between to another value is lost
C36_Witness ==
    /\ TriggerWrote /\ stBetween
    /\ stDev = Tail(stWritten)
    /\ \E i \in OtherFieldsAt : Tail(stOther)[i] # stDev[i]

\* ---- C37 ----
\* the fetch of device i was answered with the status prefix and nothing after it
EmptyKeyFetched(i) ==
    /\ task[i] = "done" /\ lastReply[i][1] = "ok"
    /\ Strip(lastReply[i][2]) = <<"O", "K", ":">>
\* the validation step of pair: both fetches have returned and pair moves on
ValidationStep ==
    /\ scen = "pair" /\ op = "pair"
    /\ fpc = "fetching" /\ fpc' \notin {"fetching", "raised"}

\* C37: validation in pair rejects only absent keys.  A fetch answered with an
\* empty payload yields the empty string as key; when neither key is None the
\* validation step goes on to the exchange, the empty string included, and
\* sends each device the key of the other; it aborts only on a None key
C37_EmptyKeyPassesValidation ==
    [][ValidationStep =>
          /\ \A i \in Devs : EmptyKeyFetched(i) => keys[i] = <<"str", <<>>>>
          /\ IF \E i \in Devs : keys[i] = <<"None">>
             THEN fpc' = "returned" /\ issued' = issued
             ELSE /\ fpc' = "exchanging"
                  /\ \A i \in Devs :
                        /\ Len(issued'[i]) = Len(issued[i]) + 1
                        /\ issued'[i][Len(issued'[i])] =
                              [req |-> "Execute",
                               argv |-> <<"bond", "set", "vns", keys[3 - i]>>]]_vars

\* a device was sent the empty key its peer's fetch yielded, and has stored it
C37_Witness ==
    /\ scen = "pair" /\ op = "pair" /\ fpc = "exchanging"
    /\ \E i \in Devs :
          /\ keys[i] = <<"str", <<>>>>
          /\ issued[3 - i][Len(issued[3 - i])].argv = <<"bond", "set", "vns", <<"str", <<>>>>>>
          /\ task[3 - i] = "done"
          /\ bond[3 - i] = <<"str", <<>>>>

\* ---- C38 ----
\* C38: when pair or unpair has ended, by returning or by raising, no session
\* it opened is still open: this covers normal completion, the validation
\* abort, an exception in a gathered routine, and a session that failed to open
C38_SessionsClosedOnEveryPath ==
    (scen = "pair" /\ fpc \in {"returned", "raised"}) =>
        \A i \in 1..2 : conn[i] \in {"idle", "failed", "closed"}

\* the second session failed to open and the first, which was open, is closed
C38_Witness ==
    /\ scen = "pair" /\ fpc = "raised"
    /\ conn[1] = "closed" /\ conn[2] = "failed"

\* ---- C39 ----
\* routine_set_time has returned on device i
SetTimeReturned(i) == scen = "fan" /\ op = "set_time" /\ task[i] = "done"

\* C39: routine_set_time returns after its third request, the final
\* DateTimeRead, and its return value is whether that read succeeded, whatever
\* the replies to the first read and to the DateTimeWrite were: a refused
\* write followed by a successful read still gives True
C39_SetTimeReturnsFinalRead ==
    \A i \in 1..MaxDevs :
        (i <= n /\ SetTimeReturned(i)) =>
            /\ Len(replied[i]) = 3
            /\ ret[i] = <<"bool", replied[i][3][1] = "ok">>

\* the DateTimeWrite was refused, the final DateTimeRead succeeded, and the
\* routine returned True
C39_Witness ==
    \E i \in 1..MaxDevs :
        /\ i <= n /\ SetTimeReturned(i)
        /\ replied[i][2] = <<"err">>
        /\ replied[i][3][1] = "ok"
        /\ ret[i] = <<"bool", TRUE>>

=============================================================================
